---- MODULE Spec2Model ----
(***************************************************************************)
(* A model of RocketChatClient (rocket-chat-client.ts): the room resolver  *)
(* (fallback chains over type-specific REST endpoints) and the search and  *)
(* analytics aggregation built on it.                                      *)
(*                                                                         *)
(* One call of a public method is modelled at the granularity of its       *)
(* awaits: an action consumes the transport's response to the request in   *)
(* flight and runs the method up to its next await (the next request) or   *)
(* to its completion.  The transport and the server are the environment:   *)
(* every response is chosen nondeterministically.                          *)
(***************************************************************************)
EXTENDS Integers, Sequences, FiniteSets, TLC

VARIABLES
    method,     \* the public method being called, "idle" before the call
    args,       \* its arguments
    pc,         \* the position of the method body (which await it is at)
    sub,        \* the awaited callee: a resolver method, listChannels or a bare request
    inflight,   \* the transport requests outstanding
    log,        \* the requests answered so far in this call, with their responses
    locals,     \* the method's local variables
    outcome     \* how the call completed: pending, resolved (value) or rejected (error)

vars == <<method, args, pc, sub, inflight, log, locals, outcome>>

-----------------------------------------------------------------------------
(* JavaScript values *)

\* an absent optional string (undefined)
Undefined == "undefined"

\* a string is truthy when it is present and non-empty
Truthy(s) == s # Undefined /\ s # ""

\* Texts are sequences of one-character strings; an absent text is the
\* one-element sequence holding Undefined, which no real text equals.
UndefText == <<Undefined>>

TruthyText(t) == t # UndefText /\ t # <<>>

UpperCase == <<"A","B","C","D","E","F","G","H","I","J","K","L","M",
               "N","O","P","Q","R","S","T","U","V","W","X","Y","Z">>
LowerCase == <<"a","b","c","d","e","f","g","h","i","j","k","l","m",
               "n","o","p","q","r","s","t","u","v","w","x","y","z">>

\* String.prototype.toLowerCase, one character
LowerChar(c) ==
    IF \E i \in 1..26 : UpperCase[i] = c
    THEN LowerCase[CHOOSE i \in 1..26 : UpperCase[i] = c]
    ELSE c

\* String.prototype.toLowerCase
toLowerCase(t) == [i \in 1..Len(t) |-> LowerChar(t[i])]

\* String.prototype.includes
includes(t, q) ==
    \E i \in 0..(Len(t) - Len(q)) : SubSeq(t, i + 1, i + Len(q)) = q

\* a slice that keeps the whole array
sliceWhole(s, n) == s

\* Array.prototype.slice(0, n), n >= 0
slice0(s, n) == SubSeq(s, 1, IF n < Len(s) THEN n ELSE Len(s))

Min(a, b) == IF a < b THEN a ELSE b
Max(a, b) == IF a > b THEN a ELSE b

\* an Error message is a sequence of text fragments; template literals
\* concatenate fragments
ContainsMsg(m, part) ==
    \E i \in 0..(Len(m) - Len(part)) : SubSeq(m, i + 1, i + Len(part)) = part

-----------------------------------------------------------------------------
(* The transport: fetch and RocketChatClient.request *)

\* fetch rejects (connection refused, DNS failure, ...)
NetworkFailure == [kind |-> "network"]

\* the body is not JSON: response.json() rejects
BadJson == [kind |-> "badjson"]

\* an HTTP response with a JSON body; present tells whether the body has the
\* list field the caller reads (messages, members, files, update, users)
HttpResp(ok, statusText, success, error, present, items) ==
    [kind |-> "http", ok |-> ok, statusText |-> statusText,
     data |-> [success |-> success, error |-> error,
               present |-> present, items |-> items]]

\* the ways a request can fail
AllFailures ==
    { NetworkFailure, BadJson,
      HttpResp(FALSE, "Not Found", FALSE, "error-room-not-found", FALSE, <<>>),
      HttpResp(FALSE, "Forbidden", FALSE, Undefined, FALSE, <<>>),
      HttpResp(FALSE, "Bad Gateway", TRUE, Undefined, FALSE, <<>>),
      HttpResp(TRUE, "OK", FALSE, "error-not-allowed", FALSE, <<>>),
      HttpResp(TRUE, "OK", FALSE, Undefined, FALSE, <<>>) }

\* a 2xx response whose body says success: true
OkResp(present, items) == HttpResp(TRUE, "OK", TRUE, Undefined, present, items)

\* the response is a 2xx response with success: true
Succeeds(resp) == resp.kind = "http" /\ resp.ok /\ resp.data.success

Thrown(m) == [thrown |-> TRUE, message |-> m]
Returned(d) == [thrown |-> FALSE, data |-> d]

\* request without its check of the body's success flag
requestNoSuccessCheck(resp) ==
    IF resp.kind = "network" THEN Thrown(<<"fetch failed">>)
    ELSE IF resp.kind = "badjson" THEN Thrown(<<"invalid json response body">>)
    ELSE IF ~resp.ok
    THEN Thrown(IF Truthy(resp.data.error) THEN <<resp.data.error>>
                ELSE <<"Request failed: ", resp.statusText>>)
    ELSE Returned(resp.data)

\* RocketChatClient.request: the awaited fetch and response.json(), then the
\* two checks; the result is the body or a thrown Error
request(resp) ==
    IF resp.kind = "network" THEN Thrown(<<"fetch failed">>)
    ELSE IF resp.kind = "badjson" THEN Thrown(<<"invalid json response body">>)
    ELSE IF ~resp.ok
    THEN Thrown(IF Truthy(resp.data.error) THEN <<resp.data.error>>
                ELSE <<"Request failed: ", resp.statusText>>)
    ELSE IF ~resp.data.success
    THEN Thrown(IF Truthy(resp.data.error) THEN <<resp.data.error>>
                ELSE <<"Request was not successful">>)
    ELSE Returned(resp.data)

\* result.messages || []
OrEmpty(data) == IF data.present THEN data.items ELSE <<>>

-----------------------------------------------------------------------------
(* The room resolver: the fallback chains *)

ChainOps ==
    { "getMessages", "getChannelMembers", "getRoomFiles", "getRoomCounters",
      "inviteToChannel", "removeFromChannel",
      "setChannelAnnouncement", "setChannelDescription" }

\* the methods that are one request to one endpoint
SingleOps ==
    { "sendMessage", "updateMessage", "deleteMessage", "reactToMessage",
      "pinMessage" }

\* the endpoint of a single-request method
SingleEndpoint(op) ==
    CASE op = "sendMessage" -> "/chat.postMessage"
      [] op = "updateMessage" -> "/chat.update"
      [] op = "deleteMessage" -> "/chat.delete"
      [] op = "reactToMessage" -> "/chat.react"
      [] op = "pinMessage" -> "/chat.pinMessage"

\* the ordered candidate endpoints of each resolver method
Endpoints(op) ==
    CASE op = "getMessages" ->
            <<"/channels.history", "/groups.history", "/dm.history">>
      [] op = "getChannelMembers" ->
            <<"/channels.members", "/groups.members">>
      [] op = "getRoomFiles" ->
            <<"/channels.files", "/groups.files", "/dm.files">>
      [] op = "getRoomCounters" ->
            <<"/channels.counters", "/groups.counters", "/dm.counters">>
      [] op = "inviteToChannel" ->
            <<"/channels.invite", "/groups.invite">>
      [] op = "removeFromChannel" ->
            <<"/channels.kick", "/groups.kick">>
      [] op = "setChannelAnnouncement" ->
            <<"/channels.setAnnouncement", "/groups.setAnnouncement">>
      [] op = "setChannelDescription" ->
            <<"/channels.setDescription", "/groups.setDescription">>

\* the error thrown after the loop: 'Unable to <operation> - room not found
\* or no access', as three fragments
FailMessage(op) ==
    <<"Unable to ",
      CASE op = "getMessages" -> "fetch messages"
        [] op = "getChannelMembers" -> "fetch members"
        [] op = "getRoomFiles" -> "get files"
        [] op = "getRoomCounters" -> "get counters"
        [] op = "inviteToChannel" -> "invite user"
        [] op = "removeFromChannel" -> "remove user"
        [] op = "setChannelAnnouncement" -> "set announcement"
        [] op = "setChannelDescription" -> "set description",
      " - room not found or no access">>

\* what a resolver method returns from a successful candidate
ChainValue(op, data) ==
    IF op \in {"getMessages", "getChannelMembers", "getRoomFiles"}
    THEN OrEmpty(data)
    ELSE data

\* a resolver loop that does not return on the first success
ResolveNoShortCircuit(op, idx, r) ==
    IF idx < Len(Endpoints(op)) THEN [kind |-> "continue"]
    ELSE IF ~r.thrown THEN [kind |-> "return", value |-> ChainValue(op, r.data)]
    ELSE [kind |-> "throw", error |-> FailMessage(op)]

\* a resolver loop that rethrows the last candidate's error
ResolveLeaksLastError(op, idx, r) ==
    IF ~r.thrown THEN [kind |-> "return", value |-> ChainValue(op, r.data)]
    ELSE IF idx < Len(Endpoints(op)) THEN [kind |-> "continue"]
    ELSE [kind |-> "throw", error |-> r.message]

\* one iteration of a resolver's loop on candidate idx, r being what
\* request gave: return on success, continue on any throw, and the throw
\* after the loop when the candidates are exhausted
Resolve(op, idx, r) ==
    IF ~r.thrown THEN [kind |-> "return", value |-> ChainValue(op, r.data)]
    ELSE IF idx < Len(Endpoints(op)) THEN [kind |-> "continue"]
    ELSE [kind |-> "throw", error |-> FailMessage(op)]

\* a loop that asks its first candidate again and again
ChainReqFirstAgain(op, idx, q) == [ep |-> Endpoints(op)[1], q |-> q]

\* the request of candidate idx: every candidate carries the same query/body
ChainReq(op, idx, q) == [ep |-> Endpoints(op)[idx], q |-> q]

NoSub == [name |-> "none", idx |-> 0]

\* what the awaited callee does with the response to its request: a resolver
\* method, listChannels() without a type, or a bare this.request
Callee(resp) ==
    LET r == request(resp) IN
    IF sub.name \in ChainOps THEN Resolve(sub.name, sub.idx, r)
    ELSE IF r.thrown THEN [kind |-> "throw", error |-> r.message]
    ELSE [kind |-> "return",
          value |-> IF sub.name = "listChannels" THEN OrEmpty(r.data) ELSE r.data]

Pending == [status |-> "pending"]
Resolved(v) == [status |-> "resolved", value |-> v]
Rejected(e) == [status |-> "rejected", error |-> e]

-----------------------------------------------------------------------------
(* Bounds and the data the server answers with *)

\* the longest message list a history or search response carries
MaxHistory == 3

\* the longest message list a room answers with inside a multi-room iteration
MaxRoomHistory == 2

\* the number of rooms the server lists at most
MaxRooms == 6

\* the longest message collection analyzeMessages is applied to
MaxAnalyzed == 3

\* the longest member list analyzeMembers is applied to
MaxMembers == 3
MaxListed == 2

\* all sequences over S of length at most n
SeqsUpTo(S, n) == UNION { [1..k -> S] : k \in 0..n }

RoomIds == {"r1", "r2"}
UserIds == {"u1", "u2"}

\* message timestamps, ISO strings as the server sends them
T1 == "2024-01-01T09:00:00.000Z"
T2 == "2024-01-01T17:00:00.000Z"
T3 == "2024-01-02T09:00:00.000Z"

\* new Date(ts): the calendar day (days since 2024-01-01) and the hour
ParseDate(ts) ==
    CASE ts = T1 -> [day |-> 0, hour |-> 9]
      [] ts = T2 -> [day |-> 0, hour |-> 17]
      [] ts = T3 -> [day |-> 1, hour |-> 9]

\* Date.prototype.getTime, in hours
getTime(ts) == ParseDate(ts).day * 24 + ParseDate(ts).hour

\* a comparator that puts the oldest message first
oldestFirst(a, b) == getTime(a.ts) - getTime(b.ts)

\* the comparator (a, b) => new Date(b.ts).getTime() - new Date(a.ts).getTime()
newestFirst(a, b) == getTime(b.ts) - getTime(a.ts)

\* a comparator that ignores sortOrder
byTimestampAscending(sortOrder, a, b) == getTime(a.ts) - getTime(b.ts)

\* the comparator of advancedSearch:
\* options.sortOrder === 'desc' ? dateB - dateA : dateA - dateB
byTimestamp(sortOrder, a, b) ==
    IF sortOrder = "desc" THEN getTime(b.ts) - getTime(a.ts)
    ELSE getTime(a.ts) - getTime(b.ts)

\* the comparator named c applied to a and b: the one of searchMessages, or
\* the one of advancedSearch for sortOrder c
compare(c, a, b) ==
    IF c = "newestFirst" THEN newestFirst(a, b) ELSE byTimestamp(c, a, b)

\* Array.prototype.sort with the comparator named c (a stable sort): the
\* element at position i is the one with i - 1 elements before it, an element
\* being before another when the comparator puts it first, or ties with it
\* and came first
sort(s, c) ==
    LET rank(j) == Cardinality({k \in 1..Len(s) :
                        \/ compare(c, s[k], s[j]) < 0
                        \/ compare(c, s[k], s[j]) = 0 /\ k < j})
    IN [i \in 1..Len(s) |-> s[CHOOSE j \in 1..Len(s) : rank(j) = i - 1]]

Hello == <<"h","e","l","l","o">>
HELLO == <<"H","E","L","L","O">>
HelloWorld == <<"h","e","l","l","o"," ","w","o","r","l","d">>
Goodbye == <<"g","o","o","d","b","y","e">>
HelloThere == <<"H","e","l","l","o"," ","t","h","e","r","e">>

\* the username of the user with _id u
UsernameOf(u) ==
    CASE u = "u1" -> "alice"
      [] u = "u2" -> "bob"
      [] u = "u3" -> "rocket.cat"
      [] OTHER -> Undefined

\* a message as the server sends it: u is the author's _id (Undefined when
\* the message has no u) and username the author's username, file tells
\* whether it has a file, mentions is the length of its mentions list
Message(id, text, ts, u, file) ==
    [_id |-> id, msg |-> text, ts |-> ts, u |-> u, username |-> UsernameOf(u),
     file |-> file, mentions |-> 0, starred |-> FALSE, pinned |-> FALSE]

M1 == Message("m1", HelloWorld, T3, "u1", FALSE)
M2 == Message("m2", Goodbye, T2, "u2", FALSE)
M3 == Message("m3", HelloThere, T1, "u1", FALSE)
\* a message whose text is the empty string
M4 == Message("m4", <<>>, T2, "u2", FALSE)
\* a file message without text
M5 == Message("m5", UndefText, T1, Undefined, TRUE)
\* a pinned message with a mention, and a starred message
M6 == [M3 EXCEPT !._id = "m6", !.mentions = 1, !.pinned = TRUE]
M7 == [M2 EXCEPT !._id = "m7", !.starred = TRUE]

\* a file message of the user u1
M9 == Message("m9", UndefText, T2, "u1", TRUE)

\* a message of the system user
M8 == Message("m8", Hello, T2, "u3", FALSE)

\* a room member; none of the members of the model carries a joinedAt
Member(id, status, roles) ==
    [_id |-> id, status |-> status, roles |-> roles, joinedAt |-> Undefined]
File(id, type, userId, size) ==
    [_id |-> id, type |-> type, userId |-> userId, size |-> size]
User(id, name) == [_id |-> id, name |-> name]

HistoryEndpoints == {"/channels.history", "/groups.history", "/dm.history"}
MemberEndpoints == {"/channels.members", "/groups.members"}
FileEndpoints == {"/channels.files", "/groups.files", "/dm.files"}

\* the endpoints of the resolver methods
ResolverEndpoints ==
    UNION { {Endpoints(op)[i] : i \in 1..Len(Endpoints(op))} : op \in ChainOps }

\* the room kind an endpoint of a resolver method serves: public channel
\* (c), private group (p) or direct message (d)
KindOf(ep) ==
    CHOOSE k \in {"c", "p", "d"} :
        \E op \in ChainOps : \E i \in 1..Len(Endpoints(op)) :
            Endpoints(op)[i] = ep /\ k = <<"c", "p", "d">>[i]

\* the answer of an endpoint that does not know the room
WrongKind ==
    HttpResp(FALSE, "Bad Request", FALSE, "error-room-not-found", FALSE, <<>>)

\* the answer of an endpoint that refuses the caller
Forbidden ==
    HttpResp(FALSE, "Forbidden", FALSE, "error-not-allowed", FALSE, <<>>)

\* the failures the transport answers req with: every kind to the resolver
\* methods called alone; inside the composite methods one kind to a history
\* request and two kinds to the other requests
Failures(req) ==
    IF method \in ChainOps \cup SingleOps THEN AllFailures
    ELSE IF req.ep \in HistoryEndpoints THEN {WrongKind}
    ELSE IF req.ep \in {"/rooms.upload", "/file-upload"}
    THEN { NetworkFailure, BadJson, Forbidden,
           HttpResp(TRUE, "OK", FALSE, Undefined, FALSE, <<>>) }
    ELSE { NetworkFailure,
           HttpResp(TRUE, "OK", FALSE, "error-not-allowed", FALSE, <<>>) }

\* room references: short names, and references of 15 and 16 characters
Dev == <<"d","e","v">>
DevTeam == <<"D","e","v"," ","T","e","a","m">>
Id15 == <<"a","b","c","d","e","f","g","h","i","j","k","l","m","n","o">>
Id16 == Id15 \o <<"p">>
Spaced17 == <<"a","b","c","d","e","f","g","h"," ","i","j","k","l","m","n","o","p">>

\* a room as /rooms.get lists it for getRoomInfo: _id, name and fname
ListedRoom(id, name, fname) == [_id |-> id, name |-> name, fname |-> fname]
ListedRooms ==
    { ListedRoom("r1", <<"D","e","v">>, UndefText),
      ListedRoom("r2", Dev, DevTeam),
      ListedRoom("r3", UndefText, Dev),
      ListedRoom("r4", Id16, UndefText) }

\* the rooms of the server, in the order /rooms.get lists them: _id, name,
\* topic and description (a direct message room has no name)
RoomTable == <<"r1", "r2", "r3", "r4", "r5", "r6", "r7", "r8">>
RoomName(i) ==
    CASE i = 1 -> <<"d","e","v">>
      [] i = 2 -> <<"H","e","l","l","o">>
      [] i = 3 -> UndefText
      [] OTHER -> <<"o","p","s">>
RoomTopic(i) == IF i = 3 THEN Hello ELSE UndefText
RoomDescription(i) == IF i = 4 THEN HELLO ELSE UndefText
Room(i) ==
    [_id |-> RoomTable[i], name |-> RoomName(i), topic |-> RoomTopic(i),
     description |-> RoomDescription(i)]

\* the room lists /rooms.get may answer with
RoomLists == { [i \in 1..n |-> Room(i)] : n \in 0..MaxRooms }

\* twelve rooms, the first eight of them unknown to the server, and the list
\* /rooms.get answers with when the caller has these twelve rooms
LongRoomIds ==
    <<"x1", "x2", "x3", "x4", "x5", "x6", "x7", "x8", "r6", "r1", "r3", "r7">>
LongRoomList ==
    [k \in 1..Len(LongRoomIds) |->
        [_id |-> LongRoomIds[k], name |-> <<"o","p","s">>,
         topic |-> UndefText, description |-> UndefText]]

\* the kind of a room: public channel, private group, direct message, or
\* none (the room does not exist or the caller has no access to it)
RoomKind(roomId) ==
    CASE roomId = "r1" -> "p"
      [] roomId = "r3" -> "d"
      [] roomId \in {"r6", "r7", "r8"} -> "c"
      [] OTHER -> "none"

\* the requests answered by the room's kind: those of a multi-room iteration
\* and of the analytics
ByRoomKind == pc = "room" \/ method = "getRoomAnalytics"

\* the list a successful response to req may carry
Items(req) ==
    CASE req.ep \in HistoryEndpoints /\ method = "getUserActivitySummary" ->
            {<<>>, <<M1>>, <<M2, M3>>, <<M1, M3>>, <<M9, M2>>}
      [] req.ep \in HistoryEndpoints /\ pc = "room" ->
            SeqsUpTo({M1, M2, M3}, MaxRoomHistory)
      [] req.ep \in HistoryEndpoints /\ method = "getRoomAnalytics" ->
            SeqsUpTo({M1, M5}, MaxRoomHistory)
      [] req.ep \in HistoryEndpoints /\ method \in ChainOps ->
            SeqsUpTo({M1, M2}, MaxHistory)
      [] req.ep = "/chat.search" /\ method = "advancedSearch" ->
            SeqsUpTo({M1, M6, M7}, MaxHistory)
      [] req.ep = "/chat.search" /\ method = "globalSearch" ->
            SeqsUpTo({M1, M2}, MaxRoomHistory)
      [] req.ep \in HistoryEndpoints \cup {"/chat.search"} ->
            SeqsUpTo({M1, M2, M3, M4, M5}, MaxHistory)
      [] req.ep \in MemberEndpoints ->
            {<<>>, <<Member("u1", "online", <<"owner">>)>>}
      [] req.ep \in FileEndpoints ->
            {<<>>, <<File("f1", "image/png", "u1", 10)>>}
      [] req.ep = "/rooms.get" /\ method = "getUserActivitySummary" ->
            RoomLists \cup {LongRoomList}
      [] req.ep = "/rooms.get" /\ method = "getRoomInfo" ->
            SeqsUpTo(ListedRooms, MaxListed)
      [] req.ep = "/rooms.get" -> RoomLists
      [] req.ep \in {"/channels.info", "/groups.info", "/rooms.info"} ->
            {<<ListedRoom("r9", UndefText, UndefText)>>}
      [] req.ep = "/users.list" -> {<<>>, <<User("u1", "alice")>>}
      [] req.ep = "/users.info" -> {<<User("u1", "alice")>>}
      [] OTHER -> {<<>>}

\* the responses the transport may give to req.  To a request answered by
\* the room's kind, the endpoint of that kind answers with a list or refuses,
\* every other endpoint fails.
Responses(req) ==
    IF ByRoomKind /\ req.ep \in ResolverEndpoints
    THEN IF KindOf(req.ep) = RoomKind(req.q.roomId)
         THEN {Forbidden} \cup {OkResp(TRUE, items) : items \in Items(req)}
         ELSE {WrongKind}
    ELSE Failures(req) \cup {OkResp(FALSE, <<>>)}
                       \cup {OkResp(TRUE, items) : items \in Items(req)}

-----------------------------------------------------------------------------
(* The resolver methods called as public methods *)

\* the query or body a resolver method sends, from its arguments (defaults
\* count = 20, offset = 0, count = 50 of the signatures)
ChainQuery(op, roomId) ==
    CASE op = "getMessages" -> [roomId |-> roomId, count |-> 20]
      [] op \in {"getChannelMembers", "getRoomFiles"} ->
            [roomId |-> roomId, offset |-> 0, count |-> 50]
      [] op = "getRoomCounters" -> [roomId |-> roomId]
      [] op \in {"inviteToChannel", "removeFromChannel"} ->
            [roomId |-> roomId, userId |-> "u1"]
      [] op = "setChannelAnnouncement" ->
            [roomId |-> roomId, announcement |-> "text"]
      [] op = "setChannelDescription" ->
            [roomId |-> roomId, description |-> "text"]

Init ==
    /\ method = "idle"
    /\ args = [none |-> TRUE]
    /\ pc = "idle"
    /\ sub = NoSub
    /\ inflight = <<>>
    /\ log = <<>>
    /\ locals = [none |-> TRUE]
    /\ outcome = Pending

\* the response to the request in flight has arrived
Answered(resp) ==
    /\ outcome.status = "pending"
    /\ Len(inflight) = 1
    /\ resp \in Responses(Head(inflight))
    /\ log' = Append(log, [req |-> Head(inflight), resp |-> resp])

\* a callee's loop that stops after a failed candidate and never returns
NextCandidateAbandoned ==
    /\ sub' = [sub EXCEPT !.idx = @ + 1]
    /\ inflight' = <<>>
    /\ UNCHANGED <<method, args, pc, locals, outcome>>

\* the callee's loop goes on to its next candidate
NextCandidate ==
    /\ sub' = [sub EXCEPT !.idx = @ + 1]
    /\ inflight' = <<ChainReq(sub.name, sub.idx + 1, sub.q)>>
    /\ UNCHANGED <<method, args, pc, locals, outcome>>

\* a resolver method that asks all its candidates at once
AwaitChainAllAtOnce(op, q) ==
    /\ sub' = [name |-> op, idx |-> 1, q |-> q]
    /\ inflight' = [k \in 1..Len(Endpoints(op)) |-> ChainReq(op, k, q)]

\* the method awaits a resolver method op called with query q
AwaitChain(op, q) ==
    /\ sub' = [name |-> op, idx |-> 1, q |-> q]
    /\ inflight' = <<ChainReq(op, 1, q)>>

\* the method awaits a single request (this.request or listChannels)
AwaitRequest(name, ep, q) ==
    /\ sub' = [name |-> name, idx |-> 1, q |-> q]
    /\ inflight' = <<[ep |-> ep, q |-> q]>>

\* the call completes
Complete(oc) ==
    /\ outcome' = oc
    /\ pc' = "done"
    /\ sub' = NoSub
    /\ inflight' = <<>>
    /\ UNCHANGED <<method, args, locals>>

\* a resolver method op called by the user of the client
ResolverCall(op) ==
    \/ /\ method = "idle"
       /\ \E roomId \in RoomIds :
            /\ args' = ChainQuery(op, roomId)
            /\ AwaitChain(op, ChainQuery(op, roomId))
       /\ method' = op
       /\ pc' = "chain"
       /\ UNCHANGED <<log, locals, outcome>>
    \/ /\ method = op
       /\ Len(inflight) = 1
       /\ \E resp \in Responses(Head(inflight)) :
            /\ Answered(resp)
            /\ LET o == Callee(resp) IN
               CASE o.kind = "continue" -> NextCandidate
                 [] o.kind = "return" -> Complete(Resolved(o.value))
                 [] o.kind = "throw" -> Complete(Rejected(o.error))

getMessages == ResolverCall("getMessages")
getChannelMembers == ResolverCall("getChannelMembers")
getRoomFiles == ResolverCall("getRoomFiles")
getRoomCounters == ResolverCall("getRoomCounters")
inviteToChannel == ResolverCall("inviteToChannel")
removeFromChannel == ResolverCall("removeFromChannel")
setChannelAnnouncement == ResolverCall("setChannelAnnouncement")
setChannelDescription == ResolverCall("setChannelDescription")

Next ==
    \/ getMessages
    \/ getChannelMembers
    \/ getRoomFiles
    \/ getRoomCounters
    \/ inviteToChannel
    \/ removeFromChannel
    \/ setChannelAnnouncement
    \/ setChannelDescription

Spec == Init /\ [][Next]_vars

-----------------------------------------------------------------------------
(* The single-request methods *)

\* the JSON bodies the single-request methods are called with
SingleBodies(op) ==
    CASE op = "sendMessage" ->
            [channel : RoomIds, text : {"text"}, tmid : {Undefined, "t1"}]
      [] op = "updateMessage" ->
            [roomId : RoomIds, msgId : {"m1"}, text : {"text"}]
      [] op = "deleteMessage" -> [roomId : RoomIds, msgId : {"m1"}]
      [] op = "reactToMessage" ->
            [messageId : {"m1"}, emoji : {":+1:"}, shouldReact : BOOLEAN]
      [] op = "pinMessage" -> [messageId : {"m1", "m2"}]

\* a single-request method op called by the user of the client: it returns
\* the promise of this.request
SingleCall(op) ==
    \/ /\ method = "idle"
       /\ \E body \in SingleBodies(op) :
            /\ args' = body
            /\ AwaitRequest("request", SingleEndpoint(op), body)
       /\ method' = op
       /\ pc' = "request"
       /\ UNCHANGED <<log, locals, outcome>>
    \/ /\ method = op
       /\ Len(inflight) = 1
       /\ \E resp \in Responses(Head(inflight)) :
            /\ Answered(resp)
            /\ LET o == Callee(resp) IN
               IF o.kind = "return"
               THEN Complete(Resolved(o.value))
               ELSE Complete(Rejected(o.error))

sendMessage == SingleCall("sendMessage")
updateMessage == SingleCall("updateMessage")
deleteMessage == SingleCall("deleteMessage")
reactToMessage == SingleCall("reactToMessage")
pinMessage == SingleCall("pinMessage")

NextRequests ==
    \/ Next
    \/ sendMessage
    \/ updateMessage
    \/ deleteMessage
    \/ reactToMessage
    \/ pinMessage

SpecRequests == Init /\ [][NextRequests]_vars

-----------------------------------------------------------------------------
(* searchMessages *)

\* a filter that compares the text with the query as they are
MatchesCaseSensitive(msg, query) ==
    /\ TruthyText(msg.msg)
    /\ includes(msg.msg, query)

\* the filter predicate msg.msg && msg.msg.toLowerCase().includes(query.toLowerCase())
Matches(msg, query) ==
    /\ TruthyText(msg.msg)
    /\ includes(toLowerCase(msg.msg), toLowerCase(query))

LocalFilter(msgs, query) == SelectSeq(msgs, LAMBDA m : Matches(m, query))

\* an error that reports the direct search's failure only
BothFailedDirectOnly(fallbackError, searchError) ==
    <<"Search failed: ">> \o searchError

\* the Error thrown when the local path and the direct search both failed
BothFailed(fallbackError, searchError) ==
    <<"Search failed: ">> \o fallbackError
        \o <<". Direct search also failed: ">> \o searchError

\* the arguments searchMessages is called with when it is given a room
ScopedArgs ==
    [query : {Hello, HELLO, <<>>}, roomId : {"r1"}, count : {1, 2, 150}]

\* the arguments searchMessages is called with when it is given no room
\* (roomId absent or empty)
UnscopedArgs ==
    [query : {Hello}, roomId : {Undefined}, count : {1, 2, 150}]
    \cup [query : {Hello}, roomId : {""}, count : {2}]

\* searchMessages is called with arguments of the set S
SearchCall(S) ==
    /\ method = "idle"
    /\ \E a \in S :
         /\ args' = a
         /\ IF Truthy(a.roomId)
            THEN /\ pc' = "local"
                 /\ AwaitChain("getMessages",
                        [roomId |-> a.roomId, count |-> Min(a.count * 5, 200)])
            ELSE /\ pc' = "global"
                 /\ AwaitRequest("request", "/chat.search",
                        [searchText |-> a.query, count |-> a.count])
    /\ method' = "searchMessages"
    /\ locals' = [fallbackError |-> <<>>, searchError |-> <<>>,
                  rooms |-> <<>>, i |-> 0, allMessages |-> <<>>]
    /\ UNCHANGED <<log, outcome>>

\* with a room: the local filter over the room's history, and the server's
\* search when the history cannot be fetched
SearchInRoom ==
    /\ method = "searchMessages"
    /\ pc \in {"local", "direct"}
    /\ \E resp \in Responses(Head(inflight)) :
         /\ Answered(resp)
         /\ LET o == Callee(resp) IN
            IF pc = "local"
            THEN CASE o.kind = "continue" -> NextCandidate
                   [] o.kind = "return" ->
                        Complete(Resolved(
                            slice0(LocalFilter(o.value, args.query), args.count)))
                   [] o.kind = "throw" ->
                        /\ locals' = [locals EXCEPT !.fallbackError = o.error]
                        /\ pc' = "direct"
                        /\ AwaitRequest("request", "/chat.search",
                              [roomId |-> args.roomId, searchText |-> args.query,
                               count |-> args.count])
                        /\ UNCHANGED <<method, args, outcome>>
            ELSE CASE o.kind = "return" -> Complete(Resolved(OrEmpty(o.value)))
                   [] o.kind = "throw" ->
                        Complete(Rejected(BothFailed(locals.fallbackError, o.error)))

\* the end of the rooms fallback: sort newest first and truncate
SearchRoomsReturn(all) ==
    Complete(Resolved(slice0(sort(all, "newestFirst"), args.count)))

\* the rooms loop goes on with room i, or ends after the last room
SearchRoomsLoop(i, all) ==
    IF i > Len(locals.rooms)
    THEN SearchRoomsReturn(all)
    ELSE /\ locals' = [locals EXCEPT !.i = i, !.allMessages = all]
         /\ pc' = "room"
         /\ AwaitChain("getMessages",
               [roomId |-> locals.rooms[i]._id,
                count |-> Max(20, args.count \div 5)])
         /\ UNCHANGED <<method, args, outcome>>

\* without a room: the server's search, and when it fails the local filter
\* over the histories of the first rooms of the room list
SearchGlobal ==
    /\ method = "searchMessages"
    /\ pc \in {"global", "rooms", "room"}
    /\ \E resp \in Responses(Head(inflight)) :
         /\ Answered(resp)
         /\ LET o == Callee(resp) IN
            CASE pc = "global" /\ o.kind = "return" ->
                    Complete(Resolved(OrEmpty(o.value)))
              [] pc = "global" /\ o.kind = "throw" ->
                    /\ locals' = [locals EXCEPT !.searchError = o.error]
                    /\ pc' = "rooms"
                    /\ AwaitRequest("listChannels", "/rooms.get", [none |-> TRUE])
                    /\ UNCHANGED <<method, args, outcome>>
              [] pc = "rooms" /\ o.kind = "return" ->
                    IF o.value = <<>>
                    THEN SearchRoomsReturn(<<>>)
                    ELSE /\ locals' = [locals EXCEPT !.rooms = slice0(o.value, 5),
                                                     !.i = 1]
                         /\ pc' = "room"
                         /\ AwaitChain("getMessages",
                               [roomId |-> o.value[1]._id,
                                count |-> Max(20, args.count \div 5)])
                         /\ UNCHANGED <<method, args, outcome>>
              [] pc = "rooms" /\ o.kind = "throw" ->
                    Complete(Rejected(
                        <<"Search failed: ">> \o locals.searchError
                        \o <<". Room-based fallback also failed: ">> \o o.error))
              [] pc = "room" /\ o.kind = "continue" -> NextCandidate
              [] pc = "room" /\ o.kind = "return" ->
                    LET all == locals.allMessages
                                   \o LocalFilter(o.value, args.query) IN
                    IF Len(all) >= args.count
                    THEN SearchRoomsReturn(all)
                    ELSE SearchRoomsLoop(locals.i + 1, all)
              [] pc = "room" /\ o.kind = "throw" ->
                    SearchRoomsLoop(locals.i + 1, locals.allMessages)

NextSearch == SearchCall(ScopedArgs) \/ SearchInRoom

SpecSearch == Init /\ [][NextSearch]_vars

NextSearchRooms == SearchCall(UnscopedArgs) \/ SearchGlobal

SpecSearchRooms == Init /\ [][NextSearchRooms]_vars

-----------------------------------------------------------------------------
(* advancedSearch, and the formatter of its result *)

\* the options advancedSearch is called with: every filter absent or given,
\* userId also given empty, and one call with every string option empty
\* (count and offset are numbers, 0 standing for an absent one)
AdvancedArgs ==
    { o \in [query : {Hello}, roomId : {Undefined, "r1"},
             userId : {Undefined, "", "u1"},
             dateFrom : {Undefined, T2}, dateTo : {Undefined, T2},
             messageType : {Undefined, "all", "mentions", "starred", "pinned"},
             sortBy : {Undefined, "timestamp", "relevance"},
             sortOrder : {Undefined, "asc", "desc"},
             count : {20}, offset : {0}] :
        /\ o.sortBy = Undefined => o.sortOrder = Undefined
        /\ o.sortBy = "relevance" => o.sortOrder # Undefined }
    \cup { [query |-> Hello, roomId |-> "", userId |-> "", dateFrom |-> "",
            dateTo |-> "", messageType |-> "all", sortBy |-> "timestamp",
            sortOrder |-> "desc", count |-> 0, offset |-> 0] }

\* the URLSearchParams of advancedSearch: searchText, and roomId, count and
\* offset when they are truthy
AdvancedQuery(o) ==
    [searchText |-> o.query,
     roomId |-> IF Truthy(o.roomId) THEN o.roomId ELSE Undefined,
     count |-> o.count, offset |-> o.offset]

\* the filters of advancedSearch with a dateTo that excludes its own instant
AdvancedFilterBeforeDateTo(messages, o) ==
    LET byUser == IF Truthy(o.userId)
                  THEN SelectSeq(messages, LAMBDA m : m.u = o.userId)
                  ELSE messages
        from == IF Truthy(o.dateFrom)
                THEN SelectSeq(byUser,
                        LAMBDA m : getTime(m.ts) >= getTime(o.dateFrom))
                ELSE byUser
        to == IF Truthy(o.dateTo)
              THEN SelectSeq(from, LAMBDA m : getTime(m.ts) < getTime(o.dateTo))
              ELSE from
    IN IF Truthy(o.messageType) /\ o.messageType # "all"
       THEN CASE o.messageType = "mentions" ->
                    SelectSeq(to, LAMBDA m : m.mentions > 0)
              [] o.messageType = "starred" -> SelectSeq(to, LAMBDA m : m.starred)
              [] o.messageType = "pinned" -> SelectSeq(to, LAMBDA m : m.pinned)
              [] OTHER -> to
       ELSE to

\* the client-side filters of advancedSearch, applied in sequence
AdvancedFilter(messages, o) ==
    LET byUser == IF Truthy(o.userId)
                  THEN SelectSeq(messages, LAMBDA m : m.u = o.userId)
                  ELSE messages
        from == IF Truthy(o.dateFrom)
                THEN SelectSeq(byUser,
                        LAMBDA m : getTime(m.ts) >= getTime(o.dateFrom))
                ELSE byUser
        to == IF Truthy(o.dateTo)
              THEN SelectSeq(from, LAMBDA m : getTime(m.ts) <= getTime(o.dateTo))
              ELSE from
    IN IF Truthy(o.messageType) /\ o.messageType # "all"
       THEN CASE o.messageType = "mentions" ->
                    SelectSeq(to, LAMBDA m : m.mentions > 0)
              [] o.messageType = "starred" -> SelectSeq(to, LAMBDA m : m.starred)
              [] o.messageType = "pinned" -> SelectSeq(to, LAMBDA m : m.pinned)
              [] OTHER -> to
       ELSE to

\* the sort of advancedSearch
AdvancedSort(messages, o) ==
    IF o.sortBy = "timestamp" THEN sort(messages, o.sortOrder) ELSE messages

\* the object advancedSearch returns from its try block
AdvancedResult(messages, o) ==
    [success |-> TRUE, messages |-> messages, total |-> Len(messages),
     query |-> o.query,
     filters |-> [roomId |-> o.roomId, userId |-> o.userId,
                  dateFrom |-> o.dateFrom, dateTo |-> o.dateTo,
                  messageType |-> o.messageType]]

\* the object advancedSearch returns from its catch block
AdvancedFailure(error) ==
    [success |-> FALSE, error |-> error, messages |-> <<>>, total |-> 0]

advancedSearch ==
    \/ /\ method = "idle"
       /\ \E o \in AdvancedArgs :
            /\ args' = o
            /\ AwaitRequest("request", "/chat.search", AdvancedQuery(o))
       /\ method' = "advancedSearch"
       /\ pc' = "search"
       /\ UNCHANGED <<log, locals, outcome>>
    \/ /\ method = "advancedSearch"
       /\ Len(inflight) = 1
       /\ \E resp \in Responses(Head(inflight)) :
            /\ Answered(resp)
            /\ LET o == Callee(resp) IN
               IF o.kind = "return"
               THEN Complete(Resolved(AdvancedResult(
                        AdvancedSort(AdvancedFilter(OrEmpty(o.value), args), args),
                        args)))
               ELSE Complete(Resolved(AdvancedFailure(o.error)))

\* the filters in the order of the object literal
FilterKeys == <<"roomId", "userId", "dateFrom", "dateTo", "messageType">>

\* ResponseFormatter.formatSearchResults: the query, the total, and on the
\* Filters line the key and value of every filter whose value is truthy
formatSearchResults(result) ==
    [query |-> result.query, found |-> result.total,
     filters |-> SelectSeq([i \in 1..5 |->
                                [key |-> FilterKeys[i],
                                 value |-> result.filters[FilterKeys[i]]]],
                           LAMBDA e : Truthy(e.value))]

NextAdvanced == advancedSearch

SpecAdvanced == Init /\ [][NextAdvanced]_vars

-----------------------------------------------------------------------------
(* globalSearch *)

\* the options globalSearch is called with (limit 0 stands for an absent one)
GlobalArgs ==
    [query : {Hello},
     searchType : {Undefined, "messages", "rooms", "users", "all"},
     limit : {0, 1}]

\* options.limit || d
OrDefault(n, d) == IF n = 0 THEN d ELSE n

\* the sections of globalSearch in the order of the code
GlobalSections == <<"messages", "rooms", "users">>

\* the condition of a section's if statement
SectionEnabled(o, section) == o.searchType = section \/ o.searchType = "all"

\* the first enabled section after section i, 0 when there is none
NextSection(o, i) ==
    LET later == {j \in (i + 1)..3 : SectionEnabled(o, GlobalSections[j])} IN
    IF later = {} THEN 0 ELSE CHOOSE j \in later : \A k \in later : j <= k

\* the results object globalSearch starts with
GlobalResults(query) ==
    [success |-> TRUE, query |-> query,
     results |-> [messages |-> <<>>, rooms |-> <<>>, users |-> <<>>],
     totals |-> [messages |-> 0, rooms |-> 0, users |-> 0]]

\* the object of the outer catch block of globalSearch
GlobalFailure(error, query) ==
    [success |-> FALSE, error |-> error, query |-> query,
     results |-> [messages |-> <<>>, rooms |-> <<>>, users |-> <<>>],
     totals |-> [messages |-> 0, rooms |-> 0, users |-> 0]]

\* text?.toLowerCase().includes(query.toLowerCase())
OptionalIncludes(text, query) ==
    text # UndefText /\ includes(toLowerCase(text), toLowerCase(query))

\* the predicate of the rooms filter of globalSearch
RoomMatches(room, query) ==
    \/ OptionalIncludes(room.name, query)
    \/ OptionalIncludes(room.topic, query)
    \/ OptionalIncludes(room.description, query)

\* the request of section j
SectionRequest(o, j) ==
    CASE j = 1 -> AwaitRequest("request", "/chat.search",
                     [searchText |-> o.query, count |-> OrDefault(o.limit, 50)])
      [] j = 2 -> AwaitRequest("listChannels", "/rooms.get", [none |-> TRUE])
      [] j = 3 -> AwaitRequest("request", "/users.list",
                     [name |-> o.query, count |-> OrDefault(o.limit, 20)])

\* the try block of a section after its await: value is what the awaited
\* call returned
SectionResult(results, section, value, o) ==
    CASE section = "messages" ->
            [results EXCEPT !.results.messages = OrEmpty(value),
                            !.totals.messages = Len(OrEmpty(value))]
      [] section = "rooms" ->
            LET filteredRooms ==
                    slice0(SelectSeq(value, LAMBDA room : RoomMatches(room, o.query)),
                           OrDefault(o.limit, 20)) IN
            [results EXCEPT !.results.rooms = filteredRooms,
                            !.totals.rooms = Len(filteredRooms)]
      [] section = "users" ->
            [results EXCEPT !.results.users = OrEmpty(value),
                            !.totals.users = Len(OrEmpty(value))]

SectionCatchRethrows(results, error) ==
    [thrown |-> TRUE, error |-> error, results |-> results]

\* the catch block of a section: it warns on the console and goes on
SectionCatch(results, error) == [thrown |-> FALSE, results |-> results]

globalSearch ==
    \/ /\ method = "idle"
       /\ \E o \in GlobalArgs :
            /\ args' = o
            /\ locals' = [results |-> GlobalResults(o.query)]
            /\ LET j == NextSection(o, 0) IN
               IF j = 0
               THEN /\ outcome' = Resolved(GlobalResults(o.query))
                    /\ pc' = "done"
                    /\ sub' = NoSub
                    /\ inflight' = <<>>
               ELSE /\ pc' = GlobalSections[j]
                    /\ SectionRequest(o, j)
                    /\ UNCHANGED outcome
       /\ method' = "globalSearch"
       /\ UNCHANGED log
    \/ /\ method = "globalSearch"
       /\ Len(inflight) = 1
       /\ \E resp \in Responses(Head(inflight)) :
            /\ Answered(resp)
            /\ LET o == Callee(resp)
                   i == CHOOSE k \in 1..3 : GlobalSections[k] = pc
                   section == IF o.kind = "return"
                              THEN [thrown |-> FALSE,
                                    results |-> SectionResult(locals.results, pc,
                                                              o.value, args)]
                              ELSE SectionCatch(locals.results, o.error)
                   j == NextSection(args, i)
               IN IF section.thrown
                  THEN Complete(Resolved(GlobalFailure(section.error, args.query)))
                  ELSE IF j = 0
                  THEN Complete(Resolved(section.results))
                  ELSE /\ locals' = [results |-> section.results]
                       /\ pc' = GlobalSections[j]
                       /\ SectionRequest(args, j)
                       /\ UNCHANGED <<method, args, outcome>>

NextGlobal == globalSearch

SpecGlobal == Init /\ [][NextGlobal]_vars

-----------------------------------------------------------------------------
(* The analytics helpers *)

\* null
Null == [null |-> TRUE]

\* Math.round(a / b) for a >= 0 and b > 0
Round(a, b) == (2 * a + b) \div (2 * b)

\* date filters that exclude the bounds themselves
DateWindowExclusive(messages, dateFrom, dateTo) ==
    LET from == IF Truthy(dateFrom)
                THEN SelectSeq(messages,
                        LAMBDA m : getTime(m.ts) > getTime(dateFrom))
                ELSE messages
    IN IF Truthy(dateTo)
       THEN SelectSeq(from, LAMBDA m : getTime(m.ts) < getTime(dateTo))
       ELSE from

\* no date filters at all
DateWindowIgnored(messages, dateFrom, dateTo) == messages

\* the date filters of analyzeMessages
DateWindow(messages, dateFrom, dateTo) ==
    LET from == IF Truthy(dateFrom)
                THEN SelectSeq(messages,
                        LAMBDA m : getTime(m.ts) >= getTime(dateFrom))
                ELSE messages
    IN IF Truthy(dateTo)
       THEN SelectSeq(from, LAMBDA m : getTime(m.ts) <= getTime(dateTo))
       ELSE from

\* totalLength after the forEach over the messages from index i on
RECURSIVE TotalLength(_, _)
TotalLength(messages, i) ==
    IF i > Len(messages) THEN 0
    ELSE (IF TruthyText(messages[i].msg) THEN Len(messages[i].msg) ELSE 0)
         + TotalLength(messages, i + 1)

\* Object.entries(analysis.byUser): one entry per author id, in the order the
\* ids were first met, with the count of the author's messages
UserEntries(messages) ==
    LET n == Len(messages)
        firsts == SelectSeq([i \in 1..n |-> i],
                    LAMBDA i : /\ Truthy(messages[i].u)
                               /\ \A j \in 1..(i - 1) :
                                    messages[j].u # messages[i].u)
    IN [k \in 1..Len(firsts) |->
            [id |-> messages[firsts[k]].u,
             count |-> Cardinality({j \in 1..n :
                                      messages[j].u = messages[firsts[k]].u}),
             username |-> messages[firsts[k]].username]]

\* userEntries.reduce((prev, current) =>
\*     prev[1].count > current[1].count ? prev : current), from entry i on
RECURSIVE MostActive(_, _, _)
MostActive(entries, i, prev) ==
    IF i > Len(entries) THEN prev
    ELSE MostActive(entries, i + 1,
                    IF prev.count > entries[i].count THEN prev ELSE entries[i])

\* a histogram that counts every key once
HistogramOfKeys(keys) == [k \in {keys[i] : i \in 1..Len(keys)} |-> 1]

\* the counting idiom h[key] = (h[key] || 0) + 1 over a sequence of keys
Histogram(keys) ==
    [k \in {keys[i] : i \in 1..Len(keys)} |->
        Cardinality({i \in 1..Len(keys) : keys[i] = k})]

analyzeMessages(messages, dateFrom, dateTo) ==
    LET filteredMessages == DateWindow(messages, dateFrom, dateTo)
        n == Len(filteredMessages)
        files == {i \in 1..n : filteredMessages[i].file}
        system == {i \in 1..n : /\ ~filteredMessages[i].file
                                /\ filteredMessages[i].username = "rocket.cat"}
        text == {i \in 1..n : /\ ~filteredMessages[i].file
                              /\ filteredMessages[i].username # "rocket.cat"}
        userEntries == UserEntries(filteredMessages)
    IN [total |-> n,
        byUser |-> userEntries,
        byType |-> [text |-> Cardinality(text),
                    file |-> Cardinality(files),
                    system |-> Cardinality(system)],
        byHour |-> Histogram([i \in 1..n |->
                                ParseDate(filteredMessages[i].ts).hour]),
        byDay |-> Histogram([i \in 1..n |->
                                ParseDate(filteredMessages[i].ts).day]),
        averageLength |-> IF n > 0
                          THEN Round(TotalLength(filteredMessages, 1), n)
                          ELSE 0,
        mostActive |-> IF Len(userEntries) > 0
                       THEN MostActive(userEntries, 2, userEntries[1])
                       ELSE Null]

\* getFileCategory, for the mime types of the model's files
getFileCategory(mimeType) ==
    CASE mimeType = "image/png" -> "images"
      [] mimeType = "application/pdf" -> "pdf"
      [] OTHER -> "other"

\* analysis.totalSize after the forEach over the files from index i on
RECURSIVE TotalSize(_, _)
TotalSize(files, i) ==
    IF i > Len(files) THEN 0 ELSE files[i].size + TotalSize(files, i + 1)

\* analysis.largestFile after the forEach over the files from index i on
RECURSIVE LargestFile(_, _, _)
LargestFile(files, i, largest) ==
    IF i > Len(files) THEN largest
    ELSE LargestFile(files, i + 1,
            IF files[i].size # 0 /\ (largest = Null \/ files[i].size > largest.size)
            THEN files[i] ELSE largest)

analyzeFiles(files) ==
    LET withUser == SelectSeq(files, LAMBDA f : Truthy(f.userId)) IN
    [total |-> Len(files),
     byType |-> Histogram([i \in 1..Len(files) |->
                    getFileCategory(IF Truthy(files[i].type) THEN files[i].type
                                    ELSE "unknown")]),
     byUser |-> Histogram([i \in 1..Len(withUser) |-> withUser[i].userId]),
     totalSize |-> TotalSize(files, 1),
     averageSize |-> IF Len(files) > 0
                     THEN Round(TotalSize(files, 1), Len(files)) ELSE 0,
     largestFile |-> LargestFile(files, 1, Null)]

\* the current time, and new Date(joinedAt) > thirtyDaysAgo
Now == T3
JoinedRecently(member) ==
    Truthy(member.joinedAt) /\ getTime(member.joinedAt) > getTime(Now) - 30 * 24

\* member.status || 'offline' and member.roles || ['user']
StatusOf(member) == IF Truthy(member.status) THEN member.status ELSE "offline"
RolesOf(member) == IF member.roles = UndefText THEN <<"user">> ELSE member.roles

analyzeMembers(members) ==
    LET n == Len(members)
        roles == UNION { {RolesOf(members[i])[k] : k \in 1..Len(RolesOf(members[i]))}
                         : i \in 1..n }
    IN [total |-> n,
        byStatus |-> [st \in {"online", "away", "busy", "offline"}
                               \cup {StatusOf(members[i]) : i \in 1..n} |->
                        Cardinality({i \in 1..n : StatusOf(members[i]) = st})],
        byRole |-> [role \in roles |->
                        Cardinality({p \in {<<i, k>> \in (1..n) \X (1..3) :
                                               k <= Len(RolesOf(members[i]))} :
                                        RolesOf(members[p[1]])[p[2]] = role})],
        joinedRecently |-> Cardinality({i \in 1..n : JoinedRecently(members[i])})]

-----------------------------------------------------------------------------
(* analyzeMessages applied to a message collection *)

\* the collections and date bounds analyzeMessages is applied to: texts of
\* several lengths, an empty text, a file message without text or author,
\* a message of the system user, two authors
AnalyzeArgs ==
    [messages : SeqsUpTo({M1, M2, M3, M4, M5, M8}, MaxAnalyzed),
     dateFrom : {Undefined, T1, T2, T3},
     dateTo : {Undefined, T1, T2, T3}]

InitAnalyze ==
    /\ method = "idle"
    /\ args \in AnalyzeArgs
    /\ pc = "idle"
    /\ sub = NoSub
    /\ inflight = <<>>
    /\ log = <<>>
    /\ locals = [none |-> TRUE]
    /\ outcome = Pending

\* this.analyzeMessages(messages, dateFrom, dateTo)
Analyze ==
    /\ method = "idle"
    /\ method' = "analyzeMessages"
    /\ pc' = "done"
    /\ outcome' = Resolved(analyzeMessages(args.messages, args.dateFrom,
                                           args.dateTo))
    /\ UNCHANGED <<args, sub, inflight, log, locals>>

NextAnalyze == Analyze

SpecAnalyze == InitAnalyze /\ [][NextAnalyze]_vars

-----------------------------------------------------------------------------
(* analyzeMembers applied to a member list *)

\* the members analyzeMembers is applied to: the four presence statuses, a
\* member without status and roles, a status outside the four, a member
\* with two roles and one with an empty role list
MemberPool ==
    { Member("u1", "online", <<"owner">>),
      Member("u2", Undefined, UndefText),
      Member("u3", "invisible", <<"user", "moderator">>),
      Member("u4", "away", <<>>),
      Member("u5", "busy", <<"moderator">>),
      Member("u6", "offline", <<"user">>) }

InitMembers ==
    /\ method = "idle"
    /\ args \in [members : SeqsUpTo(MemberPool, MaxMembers)]
    /\ pc = "idle"
    /\ sub = NoSub
    /\ inflight = <<>>
    /\ log = <<>>
    /\ locals = [none |-> TRUE]
    /\ outcome = Pending

\* this.analyzeMembers(members)
AnalyzeMembers ==
    /\ method = "idle"
    /\ method' = "analyzeMembers"
    /\ pc' = "done"
    /\ outcome' = Resolved(analyzeMembers(args.members))
    /\ UNCHANGED <<args, sub, inflight, log, locals>>

NextMembers == AnalyzeMembers

SpecMembers == InitMembers /\ [][NextMembers]_vars

-----------------------------------------------------------------------------
(* getRoomAnalytics *)

\* the arguments getRoomAnalytics is called with: a public channel (r6), a
\* private group (r1), a direct message room (r3) and a room the caller
\* cannot read (r2); each include option is absent, true or false
AnalyticsArgs ==
    [roomId : {"r6", "r1", "r3", "r2"},
     dateFrom : {Undefined, T2}, dateTo : {Undefined},
     includeMessages : {Undefined, "true", "false"},
     includeFiles : {Undefined, "true", "false"},
     includeMembers : {Undefined, "true", "false"}]

\* the sections of getRoomAnalytics in the order of the code
AnalyticsSections == <<"counters", "messages", "files", "members">>

\* the condition under which a section is performed
SectionWanted(o, section) ==
    CASE section = "counters" -> TRUE
      [] section = "messages" -> o.includeMessages # "false"
      [] section = "files" -> o.includeFiles = "true"
      [] section = "members" -> o.includeMembers = "true"

\* a choice of the next section that goes to the last section wanted
LastAnalyticsSection(o, i) ==
    LET later == {j \in (i + 1)..4 : SectionWanted(o, AnalyticsSections[j])} IN
    IF later = {} THEN 0 ELSE CHOOSE j \in later : \A k \in later : j >= k

\* the first section performed after section i, 0 when there is none
NextAnalyticsSection(o, i) ==
    LET later == {j \in (i + 1)..4 : SectionWanted(o, AnalyticsSections[j])} IN
    IF later = {} THEN 0 ELSE CHOOSE j \in later : \A k \in later : j <= k

\* the resolver method a section awaits
SectionCall(o, section) ==
    CASE section = "counters" ->
            AwaitChain("getRoomCounters", [roomId |-> o.roomId])
      [] section = "messages" ->
            AwaitChain("getMessages", [roomId |-> o.roomId, count |-> 100])
      [] section = "files" ->
            AwaitChain("getRoomFiles",
                       [roomId |-> o.roomId, offset |-> 0, count |-> 100])
      [] section = "members" ->
            AwaitChain("getChannelMembers",
                       [roomId |-> o.roomId, offset |-> 0, count |-> 100])

\* what a section stores in analytics.metrics
SectionMetric(o, section, value) ==
    CASE section = "counters" -> value
      [] section = "messages" -> analyzeMessages(value, o.dateFrom, o.dateTo)
      [] section = "files" -> analyzeFiles(value)
      [] section = "members" -> analyzeMembers(value)

\* the analytics object getRoomAnalytics starts with
Analytics(o) ==
    [success |-> TRUE, roomId |-> o.roomId,
     period |-> [from |-> o.dateFrom, to |-> o.dateTo],
     metrics |-> [section \in {} |-> Null]]

\* the object of the outer catch block of getRoomAnalytics
AnalyticsFailure(error, roomId) ==
    [success |-> FALSE, error |-> error, roomId |-> roomId]

getRoomAnalytics ==
    \/ /\ method = "idle"
       /\ \E o \in AnalyticsArgs :
            /\ args' = o
            /\ locals' = [analytics |-> Analytics(o)]
            /\ SectionCall(o, "counters")
       /\ method' = "getRoomAnalytics"
       /\ pc' = "counters"
       /\ UNCHANGED <<log, outcome>>
    \/ /\ method = "getRoomAnalytics"
       /\ Len(inflight) = 1
       /\ \E resp \in Responses(Head(inflight)) :
            /\ Answered(resp)
            /\ LET o == Callee(resp)
                   i == CHOOSE k \in 1..4 : AnalyticsSections[k] = pc
                   j == NextAnalyticsSection(args, i)
               IN CASE o.kind = "continue" -> NextCandidate
                    [] o.kind = "return" ->
                        LET analytics ==
                                [locals.analytics EXCEPT !.metrics =
                                    (pc :> SectionMetric(args, pc, o.value)) @@ @]
                        IN IF j = 0
                           THEN Complete(Resolved(analytics))
                           ELSE /\ locals' = [analytics |-> analytics]
                                /\ pc' = AnalyticsSections[j]
                                /\ SectionCall(args, AnalyticsSections[j])
                                /\ UNCHANGED <<method, args, outcome>>
                    [] o.kind = "throw" ->
                        IF pc = "members"
                        THEN Complete(Resolved(locals.analytics))
                        ELSE Complete(Resolved(
                                AnalyticsFailure(o.error, args.roomId)))

NextAnalytics == getRoomAnalytics

SpecAnalytics == Init /\ [][NextAnalytics]_vars

-----------------------------------------------------------------------------
(* getUserActivitySummary *)

\* the arguments getUserActivitySummary is called with (an absent
\* includeRooms is the empty list: both have a falsy length)
ActivityArgs ==
    [userId : {"u1"},
     dateFrom : {Undefined, T2}, dateTo : {Undefined},
     includeRooms : {<<>>, <<"r6", "r1">>, <<"r3", "r2", "r7", "r6">>,
                     LongRoomIds}]

\* the activity object getUserActivitySummary starts with (user, here the
\* empty list, is set after the first await)
Activity(o) ==
    [success |-> TRUE, userId |-> o.userId,
     period |-> [from |-> o.dateFrom, to |-> o.dateTo],
     metrics |-> [totalMessages |-> 0, activeRooms |-> <<>>,
                  mostActiveRoom |-> Null,
                  timeDistribution |-> [hour \in {} |-> 0],
                  messageTypes |-> [text |-> 0, files |-> 0, reactions |-> 0]],
     user |-> <<>>]

\* the object of the catch block of getUserActivitySummary
ActivityFailure(error, userId) ==
    [success |-> FALSE, error |-> error, userId |-> userId]

\* userInfo.user: the user of the body as a list of one user, the empty
\* list when the body has none
UserOf(data) == IF data.present THEN data.items ELSE <<>>

\* options.includeRooms.map(id => ({ _id: id }))
IncludedRooms(ids) ==
    [k \in 1..Len(ids) |-> [_id |-> ids[k], name |-> UndefText]]

\* timeDistribution after the forEach over the user's messages of a room
AddHours(timeDistribution, userMessages) ==
    LET hours == Histogram([k \in 1..Len(userMessages) |->
                                ParseDate(userMessages[k].ts).hour])
    IN [hour \in DOMAIN timeDistribution \cup DOMAIN hours |->
            (IF hour \in DOMAIN timeDistribution
             THEN timeDistribution[hour] ELSE 0)
            + (IF hour \in DOMAIN hours THEN hours[hour] ELSE 0)]

\* a loop body that counts a file message as a file and as a text
RoomActivityFilesAsText(activity, room, messages, userId) ==
    LET userMessages == SelectSeq(messages, LAMBDA m : m.u = userId)
        files == Len(SelectSeq(userMessages, LAMBDA m : m.file))
        metrics == activity.metrics
    IN IF Len(userMessages) > 0
       THEN [activity EXCEPT !.metrics =
                [metrics EXCEPT
                    !.totalMessages = @ + Len(userMessages),
                    !.activeRooms = Append(@, [roomId |-> room._id,
                                               roomName |-> room.name,
                                               messageCount |-> Len(userMessages)]),
                    !.messageTypes.files = @ + files,
                    !.messageTypes.text = @ + Len(userMessages),
                    !.timeDistribution = AddHours(@, userMessages)]]
       ELSE activity

\* the body of the rooms loop after its await: the metrics with the room's
\* messages of the user added
RoomActivity(activity, room, messages, userId) ==
    LET userMessages == SelectSeq(messages, LAMBDA m : m.u = userId)
        files == Len(SelectSeq(userMessages, LAMBDA m : m.file))
        metrics == activity.metrics
    IN IF Len(userMessages) > 0
       THEN [activity EXCEPT !.metrics =
                [metrics EXCEPT
                    !.totalMessages = @ + Len(userMessages),
                    !.activeRooms = Append(@, [roomId |-> room._id,
                                               roomName |-> room.name,
                                               messageCount |-> Len(userMessages)]),
                    !.messageTypes.files = @ + files,
                    !.messageTypes.text = @ + Len(userMessages) - files,
                    !.timeDistribution = AddHours(@, userMessages)]]
       ELSE activity

\* activeRooms.reduce((prev, current) =>
\*     prev.messageCount > current.messageCount ? prev : current), from entry i on
RECURSIVE MostActiveRoom(_, _, _)
MostActiveRoom(activeRooms, i, prev) ==
    IF i > Len(activeRooms) THEN prev
    ELSE MostActiveRoom(activeRooms, i + 1,
            IF prev.messageCount > activeRooms[i].messageCount
            THEN prev ELSE activeRooms[i])

\* the end of getUserActivitySummary: the most active room, and the return
ActivityReturn(activity) ==
    IF Len(activity.metrics.activeRooms) > 0
    THEN [activity EXCEPT !.metrics.mostActiveRoom =
            MostActiveRoom(activity.metrics.activeRooms, 2,
                           activity.metrics.activeRooms[1])]
    ELSE activity

\* the rooms loop goes on with room i, or ends after the last room
ActivityLoop(i, activity, rooms) ==
    IF i > Len(rooms)
    THEN Complete(Resolved(ActivityReturn(activity)))
    ELSE /\ locals' = [activity |-> activity, rooms |-> rooms, i |-> i]
         /\ pc' = "room"
         /\ AwaitChain("getMessages", [roomId |-> rooms[i]._id, count |-> 50])
         /\ UNCHANGED <<method, args, outcome>>

getUserActivitySummary ==
    \/ /\ method = "idle"
       /\ \E o \in ActivityArgs :
            /\ args' = o
            /\ locals' = [activity |-> Activity(o), rooms |-> <<>>, i |-> 0]
            /\ AwaitRequest("request", "/users.info", [userId |-> o.userId])
       /\ method' = "getUserActivitySummary"
       /\ pc' = "user"
       /\ UNCHANGED <<log, outcome>>
    \/ /\ method = "getUserActivitySummary"
       /\ Len(inflight) = 1
       /\ \E resp \in Responses(Head(inflight)) :
            /\ Answered(resp)
            /\ LET o == Callee(resp) IN
               CASE pc = "user" /\ o.kind = "return" ->
                        LET activity == [locals.activity EXCEPT
                                            !.user = UserOf(o.value)] IN
                        IF Len(args.includeRooms) > 0
                        THEN ActivityLoop(1, activity,
                                slice0(IncludedRooms(args.includeRooms), 10))
                        ELSE /\ locals' = [locals EXCEPT !.activity = activity]
                             /\ pc' = "rooms"
                             /\ AwaitRequest("listChannels", "/rooms.get",
                                             [none |-> TRUE])
                             /\ UNCHANGED <<method, args, outcome>>
                 [] pc = "rooms" /\ o.kind = "return" ->
                        ActivityLoop(1, locals.activity, slice0(o.value, 10))
                 [] pc \in {"user", "rooms"} /\ o.kind = "throw" ->
                        Complete(Resolved(ActivityFailure(o.error, args.userId)))
                 [] pc = "room" /\ o.kind = "continue" -> NextCandidate
                 [] pc = "room" /\ o.kind = "return" ->
                        ActivityLoop(locals.i + 1,
                            RoomActivity(locals.activity, locals.rooms[locals.i],
                                         o.value, args.userId),
                            locals.rooms)
                 [] pc = "room" /\ o.kind = "throw" ->
                        ActivityLoop(locals.i + 1, locals.activity, locals.rooms)

NextActivity == getUserActivitySummary

SpecActivity == Init /\ [][NextActivity]_vars

-----------------------------------------------------------------------------
(* uploadFile, downloadFile and the analyze_image tool *)

\* the arguments uploadFile is called with
UploadArgs ==
    [roomId : {"r1"}, filePath : {"/tmp/a.png", "/tmp/b.txt"},
     description : {Undefined, "", "text"}, threadId : {Undefined, "t1"}]

\* the multipart form of uploadFile: msg and description when a description
\* is given, tmid when a thread is given
UploadForm(o) ==
    [roomId |-> o.roomId, file |-> o.filePath,
     msg |-> IF Truthy(o.description) THEN o.description ELSE Undefined,
     tmid |-> IF Truthy(o.threadId) THEN o.threadId ELSE Undefined]

\* what uploadFile does with the response to its fetch
upload(resp) ==
    IF resp.kind = "network" THEN Thrown(<<"fetch failed">>)
    ELSE IF resp.kind = "badjson" THEN Thrown(<<"invalid json response body">>)
    ELSE IF ~resp.ok
    THEN Thrown(IF Truthy(resp.data.error) THEN <<resp.data.error>>
                ELSE <<"Upload failed: ", resp.statusText>>)
    ELSE IF ~resp.data.success
    THEN Thrown(IF Truthy(resp.data.error) THEN <<resp.data.error>>
                ELSE <<"Upload was not successful">>)
    ELSE Returned(resp.data)

\* uploadFile; whether the file exists is the file system's answer to
\* fs.existsSync
uploadFile ==
    \/ /\ method = "idle"
       /\ \E o \in UploadArgs, exists \in BOOLEAN :
            /\ args' = o
            /\ locals' = [exists |-> exists]
            /\ IF ~exists
               THEN /\ outcome' = Rejected(<<"File not found: ", o.filePath>>)
                    /\ pc' = "done"
                    /\ sub' = NoSub
                    /\ inflight' = <<>>
               ELSE /\ pc' = "upload"
                    /\ AwaitRequest("fetch", "/rooms.upload", UploadForm(o))
                    /\ UNCHANGED outcome
       /\ method' = "uploadFile"
       /\ UNCHANGED log
    \/ /\ method = "uploadFile"
       /\ Len(inflight) = 1
       /\ \E resp \in Responses(Head(inflight)) :
            /\ Answered(resp)
            /\ LET r == upload(resp) IN
               IF r.thrown THEN Complete(Rejected(r.message))
               ELSE Complete(Resolved(r.data))

\* what downloadFile without a savePath does with the response to its fetch
\* (the body is read as a buffer, whatever it holds)
downloadFile(resp) ==
    IF resp.kind = "network" THEN Thrown(<<"fetch failed">>)
    ELSE IF resp.kind = "http" /\ ~resp.ok
    THEN Thrown(<<"Download failed: ", resp.statusText>>)
    ELSE Returned([success |-> TRUE, data |-> "base64", size |-> 1,
                   mimeType |-> "application/octet-stream"])

\* the arguments of the analyze_image tool after the schema's defaults
AnalyzeImageArgs ==
    [fileId : {"f1"}, fileName : {"a.png"},
     analysisType : {"describe", "extract_text", "extract_text_only",
                     "identify_objects", "custom"},
     customPrompt : {Undefined, "", "what is this"}]

\* the prompt of an analysis type other than custom
PromptOf(analysisType) ==
    CASE analysisType = "describe" -> "Please provide a concise description"
      [] analysisType = "extract_text" -> "Please extract any text"
      [] analysisType = "extract_text_only" -> "Extract ONLY the text"
      [] analysisType = "identify_objects" -> "Please list the main objects"

\* the analyze_image case of the CallTool handler
analyze_image ==
    \/ /\ method = "idle"
       /\ \E o \in AnalyzeImageArgs :
            /\ args' = o
            /\ AwaitRequest("fetch", "/file-upload",
                            [fileId |-> o.fileId, fileName |-> o.fileName])
       /\ method' = "analyze_image"
       /\ pc' = "download"
       /\ UNCHANGED <<log, locals, outcome>>
    \/ /\ method = "analyze_image"
       /\ Len(inflight) = 1
       /\ \E resp \in Responses(Head(inflight)) :
            /\ Answered(resp)
            /\ LET imageData == downloadFile(resp) IN
               IF imageData.thrown
               THEN Complete(Rejected(imageData.message))
               ELSE IF ~imageData.data.success
               THEN Complete(Rejected(<<"Failed to download image for analysis">>))
               ELSE IF args.analysisType = "custom"
               THEN IF ~Truthy(args.customPrompt)
                    THEN Complete(Rejected(
                            <<"Custom prompt is required when analysisType is \"custom\"">>))
                    ELSE Complete(Resolved(
                            [analysisType |-> args.analysisType,
                             fileName |-> args.fileName,
                             prompt |-> <<args.customPrompt,
                                          " (Please keep your response concise and under 500 words)">>,
                             data |-> imageData.data.data,
                             mimeType |-> imageData.data.mimeType]))
               ELSE Complete(Resolved(
                        [analysisType |-> args.analysisType,
                         fileName |-> args.fileName,
                         prompt |-> <<PromptOf(args.analysisType)>>,
                         data |-> imageData.data.data,
                         mimeType |-> imageData.data.mimeType]))

NextFiles == uploadFile \/ analyze_image

SpecFiles == Init /\ [][NextFiles]_vars

-----------------------------------------------------------------------------
(* getRoomInfo *)

\* the references getRoomInfo is called with
RoomReferences ==
    { Dev, <<"#">> \o Dev, DevTeam, Id15, Id16, <<"#">> \o Id15,
      <<"#">> \o Id16, Spaced17 }

\* roomName.startsWith('#') ? roomName.slice(1) : roomName
cleanRoomName(roomName) ==
    IF Len(roomName) > 0 /\ roomName[1] = "#" THEN Tail(roomName)
    ELSE roomName

\* the test of the identifier shape with the length 15 included
looksLikeIdFrom15(name) == Len(name) >= 15 /\ ~includes(name, <<" ">>)

\* cleanRoomName.length > 15 && !cleanRoomName.includes(' ')
looksLikeId(name) == Len(name) > 15 /\ ~includes(name, <<" ">>)

\* encodeURIComponent on letters, the space and '#'
RECURSIVE encodeURIComponent(_)
encodeURIComponent(t) ==
    IF t = <<>> THEN <<>>
    ELSE (CASE Head(t) = " " -> <<"%","2","0">>
            [] Head(t) = "#" -> <<"%","2","3">>
            [] OTHER -> <<Head(t)>>) \o encodeURIComponent(Tail(t))

idEndpoints == <<"/channels.info", "/groups.info", "/rooms.info">>
nameEndpoints == <<"/channels.info", "/groups.info">>

\* the k-th request of a tier of lookups
InfoReq(tier, k, name) ==
    IF tier = "id"
    THEN [ep |-> idEndpoints[k], q |-> [roomId |-> encodeURIComponent(name)]]
    ELSE [ep |-> nameEndpoints[k],
          q |-> [roomName |-> encodeURIComponent(name)]]

\* a result without channel, group and room
UndefinedResult == [undefined |-> TRUE]

\* result.channel || result.group || result.room
InfoOf(data) == IF data.present THEN Head(data.items) ELSE UndefinedResult

\* the rooms of the list with room.name === name || room.fname === name
MatchingRooms(rooms, name) ==
    {i \in 1..Len(rooms) : rooms[i].name = name \/ rooms[i].fname = name}

\* rooms.find(...): the first matching room
foundRoom(rooms, name) ==
    rooms[CHOOSE i \in MatchingRooms(rooms, name) :
            \A j \in MatchingRooms(rooms, name) : i <= j]

RoomInfoFailure(roomName) ==
    Rejected(<<"Unable to fetch room info for '">> \o roomName
             \o <<"' - room not found or no access">>)

\* getRoomInfo: the identifier lookups, the name lookups, the room list
getRoomInfo ==
    \/ /\ method = "idle"
       /\ \E roomName \in RoomReferences :
            LET name == cleanRoomName(roomName)
                tier == IF looksLikeId(name) THEN "id" ELSE "name" IN
            /\ args' = [roomName |-> roomName]
            /\ pc' = tier
            /\ locals' = [idx |-> 1]
            /\ inflight' = <<InfoReq(tier, 1, name)>>
            /\ sub' = [name |-> "request", idx |-> 1,
                       q |-> InfoReq(tier, 1, name).q]
       /\ method' = "getRoomInfo"
       /\ UNCHANGED <<log, outcome>>
    \/ /\ method = "getRoomInfo"
       /\ pc \in {"id", "name"}
       /\ Len(inflight) = 1
       /\ \E resp \in Responses(Head(inflight)) :
            /\ Answered(resp)
            /\ LET r == request(resp)
                   name == cleanRoomName(args.roomName)
                   last == IF pc = "id" THEN Len(idEndpoints)
                           ELSE Len(nameEndpoints) IN
               IF ~r.thrown THEN Complete(Resolved(InfoOf(r.data)))
               ELSE IF locals.idx < last
               THEN /\ locals' = [idx |-> locals.idx + 1]
                    /\ inflight' = <<InfoReq(pc, locals.idx + 1, name)>>
                    /\ sub' = [name |-> "request", idx |-> 1,
                               q |-> InfoReq(pc, locals.idx + 1, name).q]
                    /\ UNCHANGED <<method, args, pc, outcome>>
               ELSE IF pc = "id"
               THEN /\ pc' = "name"
                    /\ locals' = [idx |-> 1]
                    /\ inflight' = <<InfoReq("name", 1, name)>>
                    /\ sub' = [name |-> "request", idx |-> 1,
                               q |-> InfoReq("name", 1, name).q]
                    /\ UNCHANGED <<method, args, outcome>>
               ELSE /\ pc' = "list"
                    /\ AwaitRequest("listChannels", "/rooms.get",
                                    [type |-> Undefined])
                    /\ UNCHANGED <<method, args, locals, outcome>>
    \/ /\ method = "getRoomInfo"
       /\ pc = "list"
       /\ Len(inflight) = 1
       /\ \E resp \in Responses(Head(inflight)) :
            /\ Answered(resp)
            /\ LET r == request(resp)
                   name == cleanRoomName(args.roomName) IN
               IF r.thrown THEN Complete(RoomInfoFailure(args.roomName))
               ELSE IF MatchingRooms(OrEmpty(r.data), name) # {}
               THEN Complete(Resolved(foundRoom(OrEmpty(r.data), name)))
               ELSE Complete(RoomInfoFailure(args.roomName))

SpecRoomInfo == Init /\ [][getRoomInfo]_vars

-----------------------------------------------------------------------------
(* Properties of the resolver methods (specification Spec) *)

\* the candidates of the call that failed so far
FailedCandidates == {i \in 1..Len(log) : ~Succeeds(log[i].resp)}

\* C1: the candidates of a fallback chain are requested in order with the
\* same query; once a candidate succeeds no later candidate is requested
\* and the call returns that candidate's response, so that at most one
\* response of a call is a success (A fails, B succeeds: B's response is
\* returned and C is never requested).
FallbackOrder ==
    method \in ChainOps =>
        /\ \A i \in 1..Len(log) : log[i].req = ChainReq(method, i, args)
        /\ \A i \in 1..Len(log) :
              Succeeds(log[i].resp) =>
                  /\ i = Len(log)
                  /\ inflight = <<>>
                  /\ outcome = Resolved(ChainValue(method, log[i].resp.data))
        /\ Cardinality({i \in 1..Len(log) : Succeeds(log[i].resp)}) <= 1

\* A failed, B succeeded, the call returned B's messages and C was not asked
FallbackOrderWitness ==
    /\ method = "getMessages"
    /\ Len(log) = 2
    /\ ~Succeeds(log[1].resp)
    /\ Succeeds(log[2].resp)
    /\ outcome = Resolved(<<M2, M1>>)

\* C2: when every candidate of a fallback chain failed, the call rejects with
\* the fixed text 'Unable to <operation> - room not found or no access' of
\* its operation, whatever the candidates' errors were, and the text holds
\* none of the candidates' error messages.
Exhaustion ==
    (method \in ChainOps /\ Len(log) = Len(Endpoints(method))
        /\ FailedCandidates = 1..Len(log)) =>
        /\ outcome.status = "rejected"
        /\ Len(outcome.error) = 3
        /\ outcome.error[1] = "Unable to "
        /\ outcome.error[3] = " - room not found or no access"
        /\ outcome.error = FailMessage(method)
        /\ \A i \in 1..Len(log) :
              ~ContainsMsg(outcome.error, request(log[i].resp).message)

\* the three candidates of getRoomCounters failed with three different errors
ExhaustionWitness ==
    /\ method = "getRoomCounters"
    /\ outcome.status = "rejected"
    /\ Len(log) = 3
    /\ Cardinality({request(log[i].resp).message : i \in 1..3}) = 3

\* C3: whatever the failure of a candidate that is not the last one (fetch
\* rejecting, a body that is not JSON, a non-2xx status, success: false),
\* the next candidate is requested; the call rejects only after its last
\* candidate.
AnyFailureContinues ==
    method \in ChainOps =>
        /\ \A i \in FailedCandidates :
              i < Len(Endpoints(method)) =>
                  \/ Len(log) > i
                  \/ /\ outcome.status = "pending"
                     /\ inflight = <<ChainReq(method, i + 1, args)>>
        /\ outcome.status = "rejected" => Len(log) = Len(Endpoints(method))

\* getRoomFiles went past a network failure and a success: false body
AnyFailureContinuesWitness ==
    /\ method = "getRoomFiles"
    /\ Len(log) = 3
    /\ log[1].resp.kind = "network"
    /\ log[2].resp.kind = "http" /\ log[2].resp.ok /\ ~log[2].resp.data.success
    /\ Succeeds(log[3].resp)
    /\ outcome.status = "resolved"

-----------------------------------------------------------------------------
(* Properties of searchMessages (specifications SpecSearch, SpecSearchRooms) *)

\* text contains q as a substring, letter case ignored
ContainsIgnoringCase(text, q) ==
    \E off \in 0..(Len(text) - Len(q)) :
        \A k \in 1..Len(q) : LowerChar(text[off + k]) = LowerChar(q[k])

\* the message has a text and the text contains the query
HasQuery(m) == m.msg # UndefText /\ ContainsIgnoringCase(m.msg, args.query)

\* the message has a non-empty text and the text contains the query
HasQueryNonEmpty(m) == HasQuery(m) /\ m.msg # <<>>

\* r is the messages of h that satisfy P, in the order of h, cut to n
IsFilteredPrefix(r, h, P(_), n) ==
    LET idx == {i \in 1..Len(h) : P(h[i])} IN
    /\ Len(r) = Min(n, Cardinality(idx))
    /\ \A k \in 1..Len(r) :
          r[k] = h[CHOOSE i \in idx : Cardinality({j \in idx : j < i}) = k - 1]

\* a call of searchMessages with a room
RoomScoped == method = "searchMessages" /\ Truthy(args.roomId)

\* the call ended after a history candidate succeeded
HistoryFetched ==
    /\ RoomScoped
    /\ pc = "done"
    /\ log[Len(log)].req.ep \in HistoryEndpoints
    /\ Succeeds(log[Len(log)].resp)

\* every history request of the call asks for min(limit * 5, 200) messages
AsksFiveTimesLimit ==
    \A i \in 1..Len(log) :
        log[i].req.ep \in HistoryEndpoints =>
            /\ log[i].req.q.roomId = args.roomId
            /\ log[i].req.q.count =
                  (IF args.count * 5 < 200 THEN args.count * 5 ELSE 200)

\* C7 as claimed: with a room and a fetched history, searchMessages asks for
\* min(limit * 5, 200) messages and returns exactly the fetched messages
\* whose text contains the query, letter case ignored, in the order of the
\* history, cut to the first limit of them.
LocalSearchAsClaimed ==
    (RoomScoped => AsksFiveTimesLimit)
    /\ (HistoryFetched =>
            /\ outcome.status = "resolved"
            /\ IsFilteredPrefix(outcome.value, OrEmpty(log[Len(log)].resp.data),
                                HasQuery, args.count))

\* C7 amended: the same, for the fetched messages whose text is non-empty
\* and contains the query (a message with an empty text is never returned,
\* not even for the empty query).
LocalSearchCorrect ==
    (RoomScoped => AsksFiveTimesLimit)
    /\ (HistoryFetched =>
            /\ outcome.status = "resolved"
            /\ IsFilteredPrefix(outcome.value, OrEmpty(log[Len(log)].resp.data),
                                HasQueryNonEmpty, args.count))

\* "hello world", "goodbye", "Hello there" searched for "hello": the 1st and
\* the 3rd, in that order
LocalSearchWitness ==
    /\ HistoryFetched
    /\ args.query = Hello
    /\ log[Len(log)].req.q.count = 10
    /\ OrEmpty(log[Len(log)].resp.data) = <<M1, M2, M3>>
    /\ outcome = Resolved(<<M1, M3>>)

\* the history candidates of the call all failed
HistoryExhausted ==
    /\ Len(log) >= 3
    /\ \A i \in 1..3 : log[i].req.ep \in HistoryEndpoints /\ ~Succeeds(log[i].resp)

\* the request to the server's search endpoint of a call with a room
DirectSearchReq ==
    [ep |-> "/chat.search",
     q |-> [roomId |-> args.roomId, searchText |-> args.query,
            count |-> args.count]]

\* C8: with a room, the server's search endpoint is requested if and only if
\* the history chain was exhausted (a fetched history, even without a match,
\* ends the call); when the search fails too the call rejects with one error
\* whose message holds the local path's reason and the search's reason.
DirectSearchOnlyAfterLocalFailure ==
    RoomScoped =>
        /\ \A i \in 1..Len(log) :
              log[i].req.ep = "/chat.search" => i = 4 /\ HistoryExhausted
        /\ inflight = <<DirectSearchReq>> => HistoryExhausted
        /\ HistoryExhausted =>
              \/ inflight = <<DirectSearchReq>> /\ Len(log) = 3
              \/ Len(log) = 4 /\ log[4].req = DirectSearchReq /\ pc = "done"
        /\ HistoryFetched => outcome.status = "resolved"
        /\ (Len(log) = 4 /\ Succeeds(log[4].resp)) =>
              outcome = Resolved(OrEmpty(log[4].resp.data))
        /\ (Len(log) = 4 /\ ~Succeeds(log[4].resp)) =>
              /\ outcome.status = "rejected"
              /\ ContainsMsg(outcome.error, FailMessage("getMessages"))
              /\ ContainsMsg(outcome.error, request(log[4].resp).message)

\* history and search both failed
DirectSearchWitness ==
    /\ RoomScoped
    /\ Len(log) = 4
    /\ outcome.status = "rejected"

\* a history without a match ended the call with an empty result
NoMatchWitness ==
    /\ HistoryFetched
    /\ OrEmpty(log[Len(log)].resp.data) = <<M2>>
    /\ args.query = Hello
    /\ outcome = Resolved(<<>>)

\* a call of searchMessages without a room
Unscoped == method = "searchMessages" /\ ~Truthy(args.roomId)

\* the request to the server's search endpoint of a call without a room
GlobalSearchReq ==
    [ep |-> "/chat.search", q |-> [searchText |-> args.query, count |-> args.count]]

\* the call took the rooms fallback and got the room list
RoomsListed ==
    /\ Unscoped
    /\ Len(log) >= 2
    /\ log[2].req.ep = "/rooms.get"
    /\ Succeeds(log[2].resp)

\* the first five rooms of the list the server answered with
FirstFive == slice0(OrEmpty(log[2].resp.data), 5)

\* the rooms whose history was requested, in the order of the requests
RECURSIVE RequestedRooms(_)
RequestedRooms(n) ==
    IF n = 0 THEN <<>>
    ELSE LET e == log[n] IN
         IF e.req.ep = "/channels.history"
         THEN Append(RequestedRooms(n - 1), e.req.q.roomId)
         ELSE RequestedRooms(n - 1)

\* the matches of the histories fetched by the first n requests, concatenated
RECURSIVE FetchedMatches(_)
FetchedMatches(n) ==
    IF n = 0 THEN <<>>
    ELSE LET e == log[n] IN
         IF e.req.ep \in HistoryEndpoints /\ Succeeds(e.resp)
         THEN FetchedMatches(n - 1)
                  \o SelectSeq(OrEmpty(e.resp.data), HasQueryNonEmpty)
         ELSE FetchedMatches(n - 1)

\* the number of entries of s that satisfy P
CountOf(s, P(_)) == Cardinality({i \in 1..Len(s) : P(s[i])})

\* r is n most recent messages of a, newest first
IsMostRecent(r, a, n) ==
    /\ Len(r) = Min(n, Len(a))
    /\ \A k \in 1..(Len(r) - 1) : getTime(r[k].ts) >= getTime(r[k + 1].ts)
    /\ \A k \in 1..Len(r) :
          CountOf(r, LAMBDA m : m = r[k]) <= CountOf(a, LAMBDA m : m = r[k])
    /\ \A j \in 1..Len(a) :
          CountOf(r, LAMBDA m : getTime(m.ts) > getTime(a[j].ts))
              = Min(n, CountOf(a, LAMBDA m : getTime(m.ts) > getTime(a[j].ts)))

\* the server's search endpoint is requested first and its messages are the
\* result when it succeeds; the room list is requested only after it failed,
\* and a failing room list rejects the call
GlobalSearchFirst ==
    /\ Len(log) >= 1 => log[1].req = GlobalSearchReq
    /\ Len(log) = 0 => inflight = <<GlobalSearchReq>>
    /\ (Len(log) >= 1 /\ Succeeds(log[1].resp)) =>
          /\ Len(log) = 1
          /\ outcome = Resolved(OrEmpty(log[1].resp.data))
    /\ (Len(log) >= 1 /\ ~Succeeds(log[1].resp)) =>
          \/ Len(log) = 1 /\ inflight[1].ep = "/rooms.get"
          \/ Len(log) >= 2 /\ log[2].req.ep = "/rooms.get"
    /\ (Len(log) >= 2 /\ ~Succeeds(log[2].resp)) =>
          Len(log) = 2 /\ outcome.status = "rejected"

\* every history request is for one of the first five rooms and asks for
\* max(20, limit / 5) messages
OnlyFirstFive ==
    \A i \in 1..Len(log) :
        log[i].req.ep \in HistoryEndpoints =>
            /\ \E k \in 1..Len(FirstFive) : FirstFive[k]._id = log[i].req.q.roomId
            /\ log[i].req.q.count
                  = (IF args.count \div 5 > 20 THEN args.count \div 5 ELSE 20)

\* C9 as claimed: without a room the server's search comes first; when it
\* fails, each of the first 5 rooms of the list is fetched, and the result
\* is the limit most recent matches of those rooms' histories.
RoomsFallbackAsClaimed ==
    Unscoped =>
        /\ GlobalSearchFirst
        /\ RoomsListed => OnlyFirstFive
        /\ (RoomsListed /\ pc = "done") =>
              /\ RequestedRooms(Len(log)) = [k \in 1..Len(FirstFive) |-> FirstFive[k]._id]
              /\ outcome.status = "resolved"
              /\ IsMostRecent(outcome.value, FetchedMatches(Len(log)), args.count)

\* C9 amended: ... when it fails, the first 5 rooms of the list are fetched
\* in order until the matches gathered number limit or more (the rooms after
\* that one are not fetched), and the result is the limit most recent
\* matches of the histories that were fetched.
RoomsFallbackCorrect ==
    Unscoped =>
        /\ GlobalSearchFirst
        /\ RoomsListed => OnlyFirstFive
        /\ RoomsListed =>
              LET asked == RequestedRooms(Len(log)) IN
              /\ Len(asked) <= Len(FirstFive)
              /\ \A k \in 1..Len(asked) : asked[k] = FirstFive[k]._id
              /\ \A i \in 2..Len(log) :
                    log[i].req.ep = "/channels.history" =>
                        Len(FetchedMatches(i - 1)) < args.count
        /\ (RoomsListed /\ pc = "done") =>
              /\ \/ Len(RequestedRooms(Len(log))) = Len(FirstFive)
                 \/ Len(FetchedMatches(Len(log))) >= args.count
              /\ outcome.status = "resolved"
              /\ IsMostRecent(outcome.value, FetchedMatches(Len(log)), args.count)

\* two rooms gave one match each, the older one first: the result is sorted,
\* and the rooms after them were not fetched
RoomsFallbackWitness ==
    /\ RoomsListed
    /\ pc = "done"
    /\ args.count = 2
    /\ Len(FirstFive) = 5
    /\ FetchedMatches(Len(log)) = <<M3, M1>>
    /\ RequestedRooms(Len(log)) = <<"r1", "r2", "r3">>
    /\ outcome = Resolved(<<M1, M3>>)

-----------------------------------------------------------------------------
(* Properties of advancedSearch (specification SpecAdvanced) *)

\* advancedSearch returned the object of its try block
AdvancedSucceeded ==
    method = "advancedSearch" /\ pc = "done" /\ outcome.value.success

\* the keys on the Filters line of the formatted result
EchoedFilters ==
    LET line == formatSearchResults(outcome.value).filters IN
    {line[i].key : i \in 1..Len(line)}

\* the filters of the call that were applied: those supplied and not empty,
\* except a messageType of 'all', which filters nothing
AppliedFilters ==
    {FilterKeys[i] : i \in {j \in 1..5 :
        /\ Truthy(args[FilterKeys[j]])
        /\ ~(FilterKeys[j] = "messageType" /\ args[FilterKeys[j]] = "all")}}

\* C10: the filter echo of a successful advancedSearch names exactly the
\* filters that were applied: not a filter that was absent, empty or without
\* effect (messageType 'all'), and every filter that was applied.
FilterEchoIsApplied ==
    AdvancedSucceeded => EchoedFilters = AppliedFilters

-----------------------------------------------------------------------------
(* Properties of globalSearch (specification SpecGlobal) *)

\* globalSearch called with searchType 'all' has returned
GlobalAllDone ==
    method = "globalSearch" /\ pc = "done" /\ args.searchType = "all"

\* the endpoint a section asks
SectionEndpoint(section) ==
    CASE section = "messages" -> "/chat.search"
      [] section = "rooms" -> "/rooms.get"
      [] section = "users" -> "/users.list"

\* the section's request was made / failed / succeeded
SectionAttempted(section) ==
    \E i \in 1..Len(log) : log[i].req.ep = SectionEndpoint(section)
SectionFailed(section) ==
    \E i \in 1..Len(log) : /\ log[i].req.ep = SectionEndpoint(section)
                           /\ ~Succeeds(log[i].resp)
SectionSucceeded(section) ==
    \E i \in 1..Len(log) : /\ log[i].req.ep = SectionEndpoint(section)
                           /\ Succeeds(log[i].resp)

\* the list the server answered the section's request with
SectionAnswer(section) ==
    LET i == CHOOSE k \in 1..Len(log) : log[k].req.ep = SectionEndpoint(section)
    IN IF log[i].resp.data.present THEN log[i].resp.data.items ELSE <<>>

\* C5: globalSearch with searchType 'all' attempts the message, room and user
\* sub-searches each whatever became of the others, and returns success: true;
\* a sub-search that failed leaves its category an empty list with total 0,
\* one that succeeded is reported: the messages and users the server answered
\* with, and rooms of the server's list that contain the query.
SubSearchesIndependent ==
    GlobalAllDone =>
        /\ outcome.status = "resolved"
        /\ outcome.value.success
        /\ \A section \in {"messages", "rooms", "users"} :
            /\ SectionAttempted(section)
            /\ SectionFailed(section) =>
                /\ outcome.value.results[section] = <<>>
                /\ outcome.value.totals[section] = 0
            /\ SectionSucceeded(section) =>
                /\ outcome.value.totals[section]
                     = Len(outcome.value.results[section])
                /\ section # "rooms" =>
                     outcome.value.results[section] = SectionAnswer(section)
                /\ section = "rooms" =>
                     \A k \in 1..Len(outcome.value.results.rooms) :
                        LET room == outcome.value.results.rooms[k] IN
                        /\ \E n \in 1..Len(SectionAnswer("rooms")) :
                                SectionAnswer("rooms")[n] = room
                        /\ \/ ContainsIgnoringCase(room.name, args.query)
                           \/ ContainsIgnoringCase(room.topic, args.query)
                           \/ ContainsIgnoringCase(room.description, args.query)

\* the user sub-search failed, the message and room sub-searches found
\* something
SubSearchesIndependentWitness ==
    /\ GlobalAllDone
    /\ SectionFailed("users")
    /\ SectionSucceeded("messages")
    /\ SectionSucceeded("rooms")
    /\ outcome.value.success
    /\ outcome.value.results.users = <<>>
    /\ outcome.value.totals.users = 0
    /\ outcome.value.totals.messages > 0
    /\ outcome.value.totals.rooms > 0

\* C6: globalSearch with searchType 'all' reports success: true only when at
\* least one of its sub-searches succeeded, and success: false when the
\* message, room and user sub-searches all failed.
SuccessOnlyIfSomethingRetrieved ==
    GlobalAllDone =>
        (outcome.value.success <=>
            \E section \in {"messages", "rooms", "users"} :
                SectionSucceeded(section))

-----------------------------------------------------------------------------
(* Properties of getRoomAnalytics (specification SpecAnalytics) *)

\* every candidate of the resolver method op was requested and failed
ChainFailed(op) ==
    /\ \A k \in 1..Len(Endpoints(op)) :
         \E i \in 1..Len(log) : log[i].req.ep = Endpoints(op)[k]
    /\ \A i \in 1..Len(log) :
         log[i].req.ep \in {Endpoints(op)[k] : k \in 1..Len(Endpoints(op))}
            => ~Succeeds(log[i].resp)

\* a candidate of the resolver method op succeeded
ChainSucceeded(op) ==
    \E i \in 1..Len(log) :
        /\ log[i].req.ep \in {Endpoints(op)[k] : k \in 1..Len(Endpoints(op))}
        /\ Succeeds(log[i].resp)

\* getRoomAnalytics, asked for files and members, has returned from a call
\* in which counters and history were fetched and the file listing failed
FilesSectionFailed ==
    /\ method = "getRoomAnalytics"
    /\ pc = "done"
    /\ args.includeMessages # "false"
    /\ args.includeFiles = "true"
    /\ args.includeMembers = "true"
    /\ ChainSucceeded("getRoomCounters")
    /\ ChainSucceeded("getMessages")
    /\ ChainFailed("getRoomFiles")

\* C4: when only the file listing of getRoomAnalytics fails, the result has
\* success: true, metrics.messages and metrics.members are there (the member
\* listing having been requested and having succeeded) and metrics.files is
\* not: the failed section is omitted and blocks nothing.
FailedSectionOmitted ==
    FilesSectionFailed =>
        /\ outcome.status = "resolved"
        /\ outcome.value.success
        /\ "messages" \in DOMAIN outcome.value.metrics
        /\ "files" \notin DOMAIN outcome.value.metrics
        /\ ChainSucceeded("getChannelMembers") =>
                "members" \in DOMAIN outcome.value.metrics
        /\ \E i \in 1..Len(log) : log[i].req.ep \in MemberEndpoints

\* advancedSearch has returned from a call scoped to a room whose history
\* the caller can read, in which the server's search endpoint failed
AdvancedSearchEndpointFailed ==
    /\ method = "advancedSearch"
    /\ pc = "done"
    /\ Truthy(args.roomId)
    /\ RoomKind(args.roomId) # "none"
    /\ \E i \in 1..Len(log) : /\ log[i].req.ep = "/chat.search"
                              /\ ~Succeeds(log[i].resp)

\* C11: advancedSearch gets its candidate messages through the resolver's
\* history fetch, so when the server's search endpoint fails and the room's
\* history is readable the call has requested the history and returns the
\* matching messages with success: true.
AdvancedSearchOverHistory ==
    AdvancedSearchEndpointFailed =>
        /\ \E i \in 1..Len(log) : log[i].req.ep \in HistoryEndpoints
        /\ outcome.status = "resolved"
        /\ outcome.value.success

-----------------------------------------------------------------------------
(* Properties of analyzeMessages (specification SpecAnalyze) *)

AnalyzeDone == method = "analyzeMessages" /\ pc = "done"

\* the message lies in the date window of the call, bounds included
InWindow(m) ==
    /\ Truthy(args.dateFrom) => getTime(m.ts) >= getTime(args.dateFrom)
    /\ Truthy(args.dateTo) => getTime(m.ts) <= getTime(args.dateTo)

\* the positions of the analyzed messages that lie in the window
Windowed == {i \in 1..Len(args.messages) : InWindow(args.messages[i])}

\* the sum of the text lengths of the messages at the positions S
RECURSIVE SumOfLengths(_)
SumOfLengths(S) ==
    IF S = {} THEN 0
    ELSE LET i == CHOOSE k \in S : TRUE
             m == args.messages[i] IN
         (IF m.msg = UndefText THEN 0 ELSE Len(m.msg)) + SumOfLengths(S \ {i})

\* round(sum of text lengths / number of messages with text), 0 without any
AverageOver(withText) ==
    IF withText = {} THEN 0
    ELSE Round(SumOfLengths(withText), Cardinality(withText))

\* C12: averageLength is round(sum of text lengths / number of messages that
\* have text), the messages without text counting neither in the sum nor in
\* the divisor (whether or not an empty text counts as a text).
AverageOverMessagesWithText ==
    AnalyzeDone =>
        outcome.value.averageLength \in
            { AverageOver({i \in Windowed : args.messages[i].msg # UndefText}),
              AverageOver({i \in Windowed : TruthyText(args.messages[i].msg)}) }

\* the authors of the messages in the window, and an author's message count
Authors == {args.messages[i].u : i \in {k \in Windowed : Truthy(args.messages[k].u)}}
CountOfAuthor(u) == Cardinality({i \in Windowed : args.messages[i].u = u})
FirstMessageOf(u) ==
    CHOOSE i \in Windowed :
        /\ args.messages[i].u = u
        /\ \A j \in Windowed : args.messages[j].u = u => i <= j

\* C13: the most active author has the maximum message count, and among the
\* authors with that count it is the one met first in the collection.
MostActiveFirstOnTie ==
    (AnalyzeDone /\ Authors # {}) =>
        LET best == outcome.value.mostActive IN
        /\ best # Null
        /\ best.id \in Authors
        /\ best.count = CountOfAuthor(best.id)
        /\ \A u \in Authors :
            /\ CountOfAuthor(u) <= best.count
            /\ CountOfAuthor(u) = best.count =>
                    FirstMessageOf(best.id) <= FirstMessageOf(u)

\* the earliest and the latest timestamp of the analyzed messages
Earliest ==
    LET i == CHOOSE k \in 1..Len(args.messages) :
                \A j \in 1..Len(args.messages) :
                    getTime(args.messages[k].ts) <= getTime(args.messages[j].ts)
    IN args.messages[i].ts
Latest ==
    LET i == CHOOSE k \in 1..Len(args.messages) :
                \A j \in 1..Len(args.messages) :
                    getTime(args.messages[k].ts) >= getTime(args.messages[j].ts)
    IN args.messages[i].ts

\* the bounds of the call are the full span of the collection
FullSpan ==
    /\ AnalyzeDone
    /\ args.messages # <<>>
    /\ args.dateFrom = Earliest
    /\ args.dateTo = Latest

\* C15: analyzing a collection with dateFrom and dateTo equal to its earliest
\* and latest timestamp gives the same aggregates as analyzing it with no
\* date bounds: every message is counted.
FullSpanIsNoWindow ==
    FullSpan =>
        /\ outcome.value = analyzeMessages(args.messages, Undefined, Undefined)
        /\ outcome.value.total = Len(args.messages)

\* a full-span analysis of a collection that spans more than one timestamp
FullSpanIsNoWindowWitness ==
    /\ FullSpan
    /\ Earliest # Latest
    /\ Len(args.messages) = MaxAnalyzed
    /\ outcome.value.mostActive # Null

\* C16: analyzing an empty collection, or one of which no message lies in
\* the date window, completes and gives total 0, averageLength 0 and
\* mostActive null.
EmptyAnalysis ==
    (AnalyzeDone /\ Windowed = {}) =>
        /\ outcome.status = "resolved"
        /\ outcome.value.total = 0
        /\ outcome.value.averageLength = 0
        /\ outcome.value.mostActive = Null

\* a collection with texts and authors that the window filters to nothing
EmptyAnalysisWitness ==
    /\ AnalyzeDone
    /\ Windowed = {}
    /\ \E i \in 1..Len(args.messages) :
            /\ TruthyText(args.messages[i].msg)
            /\ Truthy(args.messages[i].u)
    /\ outcome.value.total = 0
    /\ outcome.value.averageLength = 0

-----------------------------------------------------------------------------
(* Properties of getUserActivitySummary (specification SpecActivity) *)

\* getUserActivitySummary has returned its activity object
ActivityDone ==
    /\ method = "getUserActivitySummary"
    /\ pc = "done"
    /\ outcome.value.success

\* C14: the most active room is a room with the maximum count of the user's
\* messages, and among the rooms with that count it is the one that comes
\* first in the iteration order.
MostActiveRoomFirstOnTie ==
    LET active == outcome.value.metrics.activeRooms
        best == outcome.value.metrics.mostActiveRoom IN
    (ActivityDone /\ Len(active) > 0) =>
        \E k \in 1..Len(active) :
            /\ best = active[k]
            /\ \A j \in 1..Len(active) :
                    active[j].messageCount <= active[k].messageCount
            /\ \A j \in 1..(k - 1) :
                    active[j].messageCount < active[k].messageCount

-----------------------------------------------------------------------------
(* How failures are delivered (specification SpecAdvanced) *)

\* a request of the call failed
SomeRequestFailed == \E i \in 1..Len(log) : ~Succeeds(log[i].resp)

\* C17: a failure of a public method is delivered as a rejection carrying
\* one message: when the request underlying advancedSearch has failed, the
\* call is rejected, and it never resolves with a result object.
FailuresAreRejections ==
    (method = "advancedSearch" /\ pc = "done" /\ SomeRequestFailed) =>
        /\ outcome.status = "rejected"
        /\ Len(outcome.error) > 0

-----------------------------------------------------------------------------
(* Validation before the network (specification SpecFiles) *)

\* the call was given input that fails validation: an upload of a file that
\* does not exist, or a custom image analysis without a prompt
InvalidInput ==
    \/ method = "uploadFile" /\ ~locals.exists
    \/ /\ method = "analyze_image"
       /\ args.analysisType = "custom"
       /\ ~Truthy(args.customPrompt)

\* C18: a call with invalid input is rejected before any network call: it
\* never has a request in flight and none was answered for it.
ValidationBeforeNetwork ==
    InvalidInput => inflight = <<>> /\ log = <<>>

-----------------------------------------------------------------------------
(* The order of the requests of a call (specification SpecActivity) *)

\* the last request answered
LastAnswered == log[Len(log)]

-----------------------------------------------------------------------------
(* No retries (specification SpecRequests) *)

\* the requests of the call so far: those answered, then the one in flight
Requests == [i \in 1..Len(log) |-> log[i].req] \o inflight

\* C20: nothing is retried.  A call of a resolver method asks each of its
\* candidate endpoints at most once, so it makes no more requests than it
\* has candidates; a call of a single-request method makes one request,
\* and has made exactly one when it completes, whatever the outcome.
NoRetry ==
    /\ method \in ChainOps =>
        /\ \A i, j \in 1..Len(Requests) :
                Requests[i].ep = Requests[j].ep => i = j
        /\ \A i \in 1..Len(Requests) :
                \E k \in 1..Len(Endpoints(method)) :
                    Requests[i].ep = Endpoints(method)[k]
        /\ Len(Requests) <= Len(Endpoints(method))
    /\ method \in SingleOps =>
        /\ Len(Requests) = 1
        /\ Requests[1].ep = SingleEndpoint(method)
        /\ pc = "done" => Len(log) = 1

\* a resolver method whose every candidate failed has completed
NoRetryWitness ==
    /\ method = "getMessages"
    /\ pc = "done"
    /\ outcome.status = "rejected"
    /\ Len(log) = 3
    /\ \A i \in 1..3 : ~Succeeds(log[i].resp)

-----------------------------------------------------------------------------
(* Properties of analyzeMembers (specification SpecMembers) *)

MembersDone == method = "analyzeMembers" /\ pc = "done"

PresenceStatuses == {"online", "away", "busy", "offline"}

\* the positions of the members whose status is st
WithStatus(st) == {i \in 1..Len(args.members) : args.members[i].status = st}

\* the positions of the members that hold the role
WithRole(role) ==
    {i \in 1..Len(args.members) :
        /\ args.members[i].roles # UndefText
        /\ \E k \in 1..Len(args.members[i].roles) :
                args.members[i].roles[k] = role}

\* C21: analyzeMembers counts every member in exactly one of online, away,
\* busy and offline, a member with a missing or unknown status as offline:
\* byStatus has these four keys only and their counts are the members of
\* each status; and a member is counted in the bucket of each role it holds.
MembersBucketed ==
    MembersDone =>
        LET byStatus == outcome.value.byStatus
            byRole == outcome.value.byRole IN
        /\ DOMAIN byStatus = PresenceStatuses
        /\ \A st \in {"online", "away", "busy"} :
                byStatus[st] = Cardinality(WithStatus(st))
        /\ byStatus["offline"] =
                Cardinality({i \in 1..Len(args.members) :
                    args.members[i].status
                        \notin {"online", "away", "busy"}})
        /\ \A role \in {"owner", "moderator"} :
                Cardinality(WithRole(role)) =
                    (IF role \in DOMAIN byRole THEN byRole[role] ELSE 0)

-----------------------------------------------------------------------------
(* The candidates of the read methods (specification Spec) *)

\* the resolver methods that read a room
ReadOps == {"getMessages", "getChannelMembers", "getRoomFiles", "getRoomCounters"}

\* the direct-message endpoints of the read methods
DirectMessageEndpoints ==
    {"/dm.history", "/dm.members", "/im.members", "/dm.files", "/dm.counters"}

\* the call's requests to its public-channel and private-group candidates
\* have both failed: the room is one that only a direct-message endpoint
\* can accept
OnlyDirectMessageLeft ==
    /\ method \in ReadOps
    /\ pc = "done"
    /\ Len(log) >= 2
    /\ KindOf(log[1].req.ep) = "c" /\ ~Succeeds(log[1].resp)
    /\ KindOf(log[2].req.ep) = "p" /\ ~Succeeds(log[2].resp)

\* C22: the candidates of a read method are the public-channel, the
\* private-group and then the direct-message endpoint, so a call whose
\* channel and group candidates failed has asked the direct-message
\* endpoint, and resolves with its response when that one succeeds.
DirectMessageIsLastCandidate ==
    OnlyDirectMessageLeft =>
        /\ Len(log) = 3
        /\ log[3].req.ep \in DirectMessageEndpoints
        /\ Succeeds(log[3].resp) =>
                /\ outcome.status = "resolved"
                /\ outcome.value = ChainValue(method, log[3].resp.data)

-----------------------------------------------------------------------------
(* Properties of getRoomInfo (specification SpecRoomInfo) *)

\* the lookups of a call for a reference ref, in order: endpoint and the
\* parameter that carries the reference
LookupsFor(ref) ==
    (IF Len(ref) > 15 /\ \A i \in 1..Len(ref) : ref[i] # " "
     THEN << <<"/channels.info", "roomId">>, <<"/groups.info", "roomId">>,
             <<"/rooms.info", "roomId">> >>
     ELSE << >>)
    \o << <<"/channels.info", "roomName">>, <<"/groups.info", "roomName">>,
          <<"/rooms.get", "type">> >>

\* the listed rooms whose name or display name is ref
NamedExactly(rooms, ref) ==
    {i \in 1..Len(rooms) : ref \in {rooms[i].name, rooms[i].fname}}

\* the tiers of getRoomInfo, for the reference ref: the requests made so far
\* are the first lookups for ref, each made after the one before it failed;
\* a completed call resolves with the first lookup that succeeded, or with
\* the first listed room named ref, or rejects after all the lookups
TiersFor(ref) ==
    method = "getRoomInfo" =>
        LET lookups == LookupsFor(ref) IN
        /\ Len(log) <= Len(lookups)
        /\ \A i \in 1..Len(log) :
            /\ log[i].req.ep = lookups[i][1]
            /\ DOMAIN log[i].req.q = {lookups[i][2]}
            /\ i < Len(log) => ~Succeeds(log[i].resp)
        /\ pc = "done" =>
            LET last == log[Len(log)] IN
            IF Len(log) < Len(lookups)
            THEN /\ Succeeds(last.resp)
                 /\ outcome.status = "resolved"
                 /\ last.resp.data.present =>
                        outcome.value = Head(last.resp.data.items)
            ELSE IF /\ Succeeds(last.resp)
                    /\ NamedExactly(OrEmpty(last.resp.data), ref) # {}
            THEN /\ outcome.status = "resolved"
                 /\ \E i \in NamedExactly(OrEmpty(last.resp.data), ref) :
                        /\ outcome.value = OrEmpty(last.resp.data)[i]
                        /\ \A j \in NamedExactly(OrEmpty(last.resp.data), ref) :
                                i <= j
            ELSE /\ outcome.status = "rejected"
                 /\ ContainsMsg(outcome.error,
                                <<"' - room not found or no access">>)

\* C23: getRoomInfo tries the identifier lookups (channel, group, room) first
\* when the reference has no space and more than 15 characters, and the name
\* lookups (channel, group) directly otherwise; only after all of them failed
\* it fetches the room list and returns the first room whose name or display
\* name is the reference; if no tier succeeds it rejects with a 'room not
\* found or no access' error.
RoomInfoAsClaimed == method = "getRoomInfo" => TiersFor(args.roomName)

\* C23, amended: the same, for the reference without its leading '#'.
RoomInfoCorrect ==
    method = "getRoomInfo" => TiersFor(cleanRoomName(args.roomName))

\* a reference '#' + 16 characters was looked up by identifier and by name
\* and then found in the room list
RoomInfoWitness ==
    /\ method = "getRoomInfo"
    /\ pc = "done"
    /\ args.roomName[1] = "#"
    /\ Len(log) = 6
    /\ outcome.status = "resolved"
    /\ outcome.value.name = cleanRoomName(args.roomName)

-----------------------------------------------------------------------------
(* The filters and the sort of advancedSearch (specification SpecAdvanced) *)

\* the messages /chat.search answered with
BaseMessages == OrEmpty(log[1].resp.data)

\* the message passes every supplied predicate of the call
PassesFilters(m) ==
    /\ Truthy(args.userId) => m.u = args.userId
    /\ Truthy(args.dateFrom) => getTime(m.ts) >= getTime(args.dateFrom)
    /\ Truthy(args.dateTo) => getTime(m.ts) <= getTime(args.dateTo)
    /\ args.messageType = "mentions" => m.mentions > 0
    /\ args.messageType = "starred" => m.starred
    /\ args.messageType = "pinned" => m.pinned

\* how often m occurs in the list s
Occurrences(s, m) == Cardinality({i \in 1..Len(s) : s[i] = m})

\* C24: the messages of a successful advancedSearch are exactly the base
\* messages that pass every supplied predicate (author, dateFrom, dateTo,
\* message type), and total is their number.
FilteredExactly ==
    AdvancedSucceeded =>
        LET returned == outcome.value.messages IN
        /\ \A m \in {BaseMessages[i] : i \in 1..Len(BaseMessages)}
                 \cup {returned[i] : i \in 1..Len(returned)} :
                Occurrences(returned, m) =
                    (IF PassesFilters(m) THEN Occurrences(BaseMessages, m)
                     ELSE 0)
        /\ outcome.value.total = Len(returned)

\* a search with an author, a dateTo and a type, which kept some of the base
\* messages and dropped others
FilteredExactlyWitness ==
    /\ AdvancedSucceeded
    /\ Truthy(args.userId) /\ Truthy(args.dateTo)
    /\ args.messageType = "pinned"
    /\ Len(outcome.value.messages) >= 1
    /\ Len(outcome.value.messages) < Len(BaseMessages)

\* the base messages that pass the filters, in the order received
PassingInOrder == SelectSeq(BaseMessages, PassesFilters)

-----------------------------------------------------------------------------
(* The rooms loop of getUserActivitySummary (specification SpecActivity) *)

\* the room list of the call is known: includeRooms, or the answer to
\* /rooms.get
RoomListKnown ==
    /\ method = "getUserActivitySummary"
    /\ \/ Len(args.includeRooms) > 0
       \/ /\ Len(log) >= 2
          /\ log[2].req.ep = "/rooms.get"
          /\ Succeeds(log[2].resp)

\* the ids of the room list of the call, in order
RoomListIds ==
    IF Len(args.includeRooms) > 0 THEN args.includeRooms
    ELSE [k \in 1..Len(OrEmpty(log[2].resp.data)) |->
            OrEmpty(log[2].resp.data)[k]._id]

\* the answered requests to the first candidate of a room's history: one for
\* each room whose history fetch was completed
RoomsFetched ==
    SelectSeq(log, LAMBDA e : /\ e.req.ep = "/channels.history"
                              /\ ~(e = log[Len(log)] /\ pc = "room"))

\* C26: getUserActivitySummary fetches the history of at most the first 10
\* rooms of its room list, from includeRooms or from the server; a room whose
\* history fetch fails is skipped: once the user was found, the rooms after
\* it are still fetched and the result has success: true.
FirstTenRoomsEachTried ==
    RoomListKnown =>
        /\ \A i \in 1..Len(log) :
            log[i].req.ep \in HistoryEndpoints =>
                \E k \in 1..Min(10, Len(RoomListIds)) :
                    log[i].req.q.roomId = RoomListIds[k]
        /\ Len(RoomsFetched) <= Min(10, Len(RoomListIds))
        /\ \A k \in 1..Len(RoomsFetched) :
                RoomsFetched[k].req.q.roomId = RoomListIds[k]
        /\ (pc = "done" /\ Succeeds(log[1].resp)) =>
                /\ outcome.status = "resolved"
                /\ outcome.value.success
                /\ Len(RoomsFetched) = Min(10, Len(RoomListIds))

\* the server listed twelve rooms; the history of the first eight failed and
\* messages of the user were found in a later room
FirstTenRoomsWitness ==
    /\ RoomListKnown
    /\ pc = "done"
    /\ Len(args.includeRooms) = 0
    /\ Len(RoomListIds) > 10
    /\ \E i \in 1..Len(log) :
            /\ log[i].req.ep = "/dm.history"
            /\ log[i].req.q.roomId = RoomListIds[1]
            /\ ~Succeeds(log[i].resp)
    /\ outcome.value.metrics.totalMessages > 0

-----------------------------------------------------------------------------
(* Completion of the calls (specification SpecCoreFair) *)

\* the resolver methods (fallback chains), the single-request methods,
\* getRoomInfo (tiers of lookups) and getUserActivitySummary (a room
\* iteration)
NextCore ==
    \/ NextRequests
    \/ getUserActivitySummary
    \/ getRoomInfo

\* every request in flight is eventually answered, with a response or a
\* failure, and the continuation of the await then runs
SpecCoreFair == Init /\ [][NextCore]_vars /\ WF_vars(NextCore)

\* the call has completed: it resolved or it rejected
Completed == pc = "done" /\ outcome.status \in {"resolved", "rejected"}

-----------------------------------------------------------------------------
(* The counters of getUserActivitySummary (specification SpecActivity) *)

\* the sum of the numbers of a list
RECURSIVE SumOfList(_)
SumOfList(s) == IF s = <<>> THEN 0 ELSE Head(s) + SumOfList(Tail(s))

\* the sum of the counts of a histogram
RECURSIVE SumOfCounts(_)
SumOfCounts(h) ==
    IF DOMAIN h = {} THEN 0
    ELSE LET k == CHOOSE x \in DOMAIN h : TRUE IN
         h[k] + SumOfCounts([x \in DOMAIN h \ {k} |-> h[x]])

\* C28: in a successful result totalMessages is the sum of messageCount over
\* activeRooms, is text + files, and is the sum of timeDistribution; every
\* entry of activeRooms has a messageCount of at least 1, and mostActiveRoom
\* is null exactly when activeRooms is empty.
ActivityCountersAgree ==
    ActivityDone =>
        LET metrics == outcome.value.metrics
            active == metrics.activeRooms IN
        /\ metrics.totalMessages =
                SumOfList([k \in 1..Len(active) |-> active[k].messageCount])
        /\ metrics.totalMessages =
                metrics.messageTypes.text + metrics.messageTypes.files
        /\ metrics.totalMessages = SumOfCounts(metrics.timeDistribution)
        /\ \A k \in 1..Len(active) : active[k].messageCount >= 1
        /\ (metrics.mostActiveRoom = Null) <=> (Len(active) = 0)

\* a summary over two active rooms with text and file messages of the user
ActivityCountersWitness ==
    /\ ActivityDone
    /\ Len(outcome.value.metrics.activeRooms) >= 2
    /\ outcome.value.metrics.messageTypes.files >= 1
    /\ outcome.value.metrics.messageTypes.text >= 1
    /\ Cardinality(DOMAIN outcome.value.metrics.timeDistribution) >= 2

-----------------------------------------------------------------------------
(* The counters of analyzeMessages (specification SpecAnalyze) *)

\* C29: every message in the window is counted in exactly one type and once
\* per time bucket: text + file + system = total, the byHour counts and the
\* byDay counts each sum to total, and the byUser counts sum to the number of
\* messages in the window that carry an author id.
AnalysisCountersAgree ==
    AnalyzeDone =>
        LET analysis == outcome.value
            byUser == analysis.byUser IN
        /\ analysis.total = Cardinality(Windowed)
        /\ analysis.byType.text + analysis.byType.file + analysis.byType.system
                = analysis.total
        /\ SumOfCounts(analysis.byHour) = analysis.total
        /\ SumOfCounts(analysis.byDay) = analysis.total
        /\ SumOfList([k \in 1..Len(byUser) |-> byUser[k].count]) =
                Cardinality({i \in Windowed : Truthy(args.messages[i].u)})
        /\ SumOfList([k \in 1..Len(byUser) |-> byUser[k].count]) <= analysis.total

\* an analysis of a text, a file without an author and a system message, two
\* of them in the same hour
AnalysisCountersWitness ==
    /\ AnalyzeDone
    /\ outcome.value.total = 3
    /\ outcome.value.byType.text = 1
    /\ outcome.value.byType.file = 1
    /\ outcome.value.byType.system = 1
    /\ Cardinality(DOMAIN outcome.value.byHour) = 2
    /\ Len(outcome.value.byUser) = 2

-----------------------------------------------------------------------------
(* The order of the sections of getRoomAnalytics (specification SpecAnalytics) *)

\* the section a request belongs to: 1 counters, 2 messages, 3 files,
\* 4 members
SectionOfRequest(req) ==
    CASE req.ep \in HistoryEndpoints -> 2
      [] req.ep \in FileEndpoints -> 3
      [] req.ep \in MemberEndpoints -> 4
      [] OTHER -> 1

\* the sections whose requests were answered
SectionsAsked == {SectionOfRequest(log[i].req) : i \in 1..Len(log)}

\* C30: the sections are performed in the order counters, messages, files,
\* members, and a failure of the counters fetch ends the call at once: the
\* result is success: false with the counters error and without metrics, and
\* no history, file or member request was issued.
CountersFirstAndFatal ==
    method = "getRoomAnalytics" =>
        /\ \A i, j \in 1..Len(log) :
                i < j => SectionOfRequest(log[i].req) <= SectionOfRequest(log[j].req)
        /\ Len(log) >= 1 =>
                log[1].req.ep = Endpoints("getRoomCounters")[1]
        /\ (pc = "done" /\ outcome.value.success) =>
                /\ "counters" \in DOMAIN outcome.value.metrics
                /\ SectionsAsked =
                    {k \in 1..4 : SectionWanted(args, AnalyticsSections[k])}
        /\ (pc = "done" /\ ChainFailed("getRoomCounters")) =>
                /\ outcome.status = "resolved"
                /\ ~outcome.value.success
                /\ outcome.value.error = FailMessage("getRoomCounters")
                /\ "metrics" \notin DOMAIN outcome.value
                /\ SectionsAsked = {1}

\* a call asked for every section ended after the three counters candidates
\* had failed
CountersFatalWitness ==
    /\ method = "getRoomAnalytics"
    /\ pc = "done"
    /\ args.includeMessages = "true"
    /\ args.includeFiles = "true"
    /\ args.includeMembers = "true"
    /\ ChainFailed("getRoomCounters")
    /\ Len(log) = 3

====
